---- MODULE Spec2Model ----
(***************************************************************************)
(* RagScore: the evaluation / judging pipeline.                            *)
(*                                                                         *)
(*   - safe_json_parse and the JSON decoder it calls   (ragscore/llm.py)   *)
(*   - _judge_single and evaluate_rag           (ragscore/evaluation.py)   *)
(*   - RAGEndpointClient.query                  (ragscore/assessment.py)   *)
(*                                                                         *)
(* Texts are sequences of one-character strings, so that the repairs of    *)
(* safe_json_parse and the decoder work on them character by character.    *)
(***************************************************************************)
EXTENDS Integers, Sequences, FiniteSets, TLC

(***************************************************************************)
(* Call by value.  TLC evaluates operator arguments and LET definitions    *)
(* lazily, once per use when it collects coverage; the recursive text      *)
(* operators below are therefore called through Call1..Call3, which        *)
(* evaluate the arguments once, and bind intermediate results with Bind.   *)
(***************************************************************************)

\* let x = v in Op(x)
Bind(v, Op(_)) == CHOOSE r \in {Op(x) : x \in {v}} : TRUE

Call1(Op(_), a) == CHOOSE r \in {Op(x) : x \in {a}} : TRUE

Call2(Op(_, _), a, b) == CHOOSE r \in {Op(x, y) : x \in {a}, y \in {b}} : TRUE

Call3(Op(_, _, _), a, b, c) ==
    CHOOSE r \in {Op(x, y, z) : x \in {a}, y \in {b}, z \in {c}} : TRUE


(***************************************************************************)
(* Texts                                                                   *)
(***************************************************************************)

\* A Python str as the sequence of its characters.
Chars(s) == [i \in 1..Len(s) |-> SubSeq(s, i, i)]

RECURSIVE Join(_)
\* "".join(cs)
Join(cs) == IF cs = <<>> THEN "" ELSE Head(cs) \o Join(Tail(cs))

\* The characters [\x00-\x1f] that occur in the texts of the model.
ControlChars == {"\n", "\t", "\r"}

\* What str.lstrip() and the decoder's WHITESPACE skip.
Whitespace == {" "} \cup ControlChars

Digits == {"0", "1", "2", "3", "4", "5", "6", "7", "8", "9"}

DigitVal(c) ==
    CASE c = "0" -> 0 [] c = "1" -> 1 [] c = "2" -> 2 [] c = "3" -> 3
      [] c = "4" -> 4 [] c = "5" -> 5 [] c = "6" -> 6 [] c = "7" -> 7
      [] c = "8" -> 8 [] c = "9" -> 9

\* str.count(c)
Count(s, c) == Cardinality({i \in DOMAIN s : s[i] = c})

RECURSIVE Rep(_, _)
\* c * n
Rep(c, n) == IF n <= 0 THEN <<>> ELSE <<c>> \o Rep(c, n - 1)

RECURSIVE SkipWs(_, _)
\* The index of the first character at or after i that is no whitespace
\* (Len(s) + 1 when there is none).
SkipWs(s, i) ==
    IF i <= Len(s) /\ s[i] \in Whitespace THEN SkipWs(s, i + 1) ELSE i

RECURSIVE Pow10(_)
Pow10(n) == IF n <= 0 THEN 1 ELSE 10 * Pow10(n - 1)

(***************************************************************************)
(* json.loads.  A decoded value is a record [t, v]:                        *)
(*   "obj"   v = the sequence of <<key, value>> members in text order      *)
(*   "arr"   v = the sequence of elements                                  *)
(*   "str"   v = the Python str                                            *)
(*   "int"   v = the integer                                               *)
(*   "float" v = [neg, digits, scale]: (-1)^neg * digits / 10^scale        *)
(*   "bool"  v = TRUE / FALSE                                              *)
(*   "null"  v = 0                                                         *)
(* A decoding step returns [ok, val, pos]: pos is the index after the      *)
(* value; ok = FALSE stands for json.JSONDecodeError.                      *)
(***************************************************************************)

JFail == [ok |-> FALSE, val |-> [t |-> "null", v |-> 0], pos |-> 0]

JOk(val, pos) == [ok |-> TRUE, val |-> val, pos |-> pos]

JNull == [t |-> "null", v |-> 0]

JStr(s) == [t |-> "str", v |-> s]

JInt(n) == [t |-> "int", v |-> n]

JObj(members) == [t |-> "obj", v |-> members]

\* The empty mapping {}.
EmptyObj == JObj(<<>>)

\* Whether text s holds word w at index i.
HasWord(s, i, w) ==
    /\ i + Len(w) - 1 <= Len(s)
    /\ \A k \in 1..Len(w) : s[i + k - 1] = SubSeq(w, k, k)

HexDigits == Digits \cup {"a", "b", "c", "d", "e", "f", "A", "B", "C", "D", "E", "F"}

\* The escapes py_scanstring accepts after a backslash, with what they decode to.
SimpleEscapes == {"\"", "\\", "/", "b", "f", "n", "r", "t"}

Unescape(c) ==
    CASE c = "n" -> "\n" [] c = "t" -> "\t" [] c = "r" -> "\r"
      [] c = "b" -> "\\b" [] c = "f" -> "\\f"
      [] OTHER -> c

RECURSIVE ScanString(_, _, _)
\* py_scanstring from index i (the character after the opening quote), acc the
\* text decoded so far; strict mode: a control character inside a string is an error.
ScanString(s, i, acc) ==
    IF i > Len(s) THEN JFail
    ELSE IF s[i] = "\"" THEN JOk(JStr(acc), i + 1)
    ELSE IF s[i] \in ControlChars THEN JFail
    ELSE IF s[i] = "\\" THEN
        IF i + 1 > Len(s) THEN JFail
        ELSE IF s[i + 1] \in SimpleEscapes
            THEN ScanString(s, i + 2, acc \o Unescape(s[i + 1]))
        ELSE IF s[i + 1] = "u" /\ i + 5 <= Len(s)
                /\ \A k \in 2..5 : s[i + k] \in HexDigits
            THEN ScanString(s, i + 6,
                       acc \o "\\u" \o Join(SubSeq(s, i + 2, i + 5)))
        ELSE JFail
    ELSE ScanString(s, i + 1, acc \o s[i])

RECURSIVE DigitsEnd(_, _)
\* The index after the run of digits that starts at i.
DigitsEnd(s, i) ==
    IF i <= Len(s) /\ s[i] \in Digits THEN DigitsEnd(s, i + 1) ELSE i

RECURSIVE NatOf(_)
\* The number a sequence of digits writes.
NatOf(ds) ==
    IF ds = <<>> THEN 0
    ELSE 10 * Call1(NatOf, SubSeq(ds, 1, Len(ds) - 1)) + DigitVal(ds[Len(ds)])

\* NUMBER_RE = (-?(?:0|[1-9]\d*))(\.\d+)?([eE][-+]?\d+)? matched at index i:
\* d0..dEnd-1 the integer digits, dEnd+1..fEnd-1 the fraction digits when
\* fEnd > dEnd, e0..eEnd-1 the exponent digits when eEnd > fEnd.
ScanNumber(s, i) ==
    LET neg == i <= Len(s) /\ s[i] = "-"
        d0  == IF neg THEN i + 1 ELSE i
    IN  Bind(IF d0 <= Len(s) /\ s[d0] = "0" THEN d0 + 1 ELSE DigitsEnd(s, d0),
             LAMBDA dEnd :
        Bind(IF dEnd <= Len(s) /\ s[dEnd] = "." /\ DigitsEnd(s, dEnd + 1) > dEnd + 1
             THEN DigitsEnd(s, dEnd + 1) ELSE dEnd,
             LAMBDA fEnd :
        LET eSign == fEnd + 1 <= Len(s) /\ s[fEnd + 1] \in {"+", "-"}
            e0    == IF eSign THEN fEnd + 2 ELSE fEnd + 1
        IN
        Bind(IF fEnd <= Len(s) /\ s[fEnd] \in {"e", "E"} /\ DigitsEnd(s, e0) > e0
             THEN DigitsEnd(s, e0) ELSE fEnd,
             LAMBDA eEnd :
        LET ip   == NatOf(SubSeq(s, d0, dEnd - 1))
            frac == IF fEnd > dEnd THEN SubSeq(s, dEnd + 1, fEnd - 1) ELSE <<>>
            ex   == IF eEnd > fEnd
                    THEN (IF eSign /\ s[fEnd + 1] = "-" THEN -1 ELSE 1)
                         * NatOf(SubSeq(s, e0, eEnd - 1))
                    ELSE 0
        IN  IF dEnd = d0 THEN JFail
            ELSE IF fEnd = dEnd /\ eEnd = fEnd
                THEN JOk(JInt(IF neg THEN -ip ELSE ip), dEnd)
            ELSE JOk([t |-> "float",
                      v |-> [neg    |-> neg,
                             digits |-> ip * Pow10(Len(frac)) + NatOf(frac),
                             scale  |-> Len(frac) - ex]],
                     eEnd))))

RECURSIVE ScanValue(_, _)
RECURSIVE ScanMembers(_, _, _)
RECURSIVE ScanElements(_, _, _)

\* JSONObject after a member: i is the index of the first character of a key's
\* opening quote.
ScanMembers(s, i, acc) ==
    IF ~(i <= Len(s) /\ s[i] = "\"") THEN JFail
    ELSE Bind(ScanString(s, i + 1, ""), LAMBDA key :
         Bind(IF key.ok THEN SkipWs(s, key.pos) ELSE 0, LAMBDA colon :
            IF ~key.ok \/ ~(colon <= Len(s) /\ s[colon] = ":") THEN JFail
            ELSE Bind(Call2(ScanValue, s, SkipWs(s, colon + 1)), LAMBDA val :
                 Bind(IF val.ok THEN SkipWs(s, val.pos) ELSE 0, LAMBDA next :
                    IF ~val.ok \/ next > Len(s) THEN JFail
                    ELSE IF s[next] = "}"
                        THEN JOk(JObj(Append(acc, <<key.val.v, val.val>>)), next + 1)
                    ELSE IF s[next] = ","
                        THEN Call3(ScanMembers, s, SkipWs(s, next + 1),
                                   Append(acc, <<key.val.v, val.val>>))
                    ELSE JFail))))

\* JSONArray: i is the index of the first character of an element.
ScanElements(s, i, acc) ==
    Bind(Call2(ScanValue, s, i), LAMBDA val :
    Bind(IF val.ok THEN SkipWs(s, val.pos) ELSE 0, LAMBDA next :
        IF ~val.ok \/ next > Len(s) THEN JFail
        ELSE IF s[next] = "]"
            THEN JOk([t |-> "arr", v |-> Append(acc, val.val)], next + 1)
        ELSE IF s[next] = ","
            THEN Call3(ScanElements, s, SkipWs(s, next + 1), Append(acc, val.val))
        ELSE JFail))

\* scanner.py_make_scanner._scan_once at index i.
ScanValue(s, i) ==
    IF i > Len(s) THEN JFail
    ELSE IF s[i] = "\"" THEN ScanString(s, i + 1, "")
    ELSE IF s[i] = "{" THEN
        Bind(SkipWs(s, i + 1), LAMBDA j :
            IF j <= Len(s) /\ s[j] = "}" THEN JOk(EmptyObj, j + 1)
            ELSE Call3(ScanMembers, s, j, <<>>))
    ELSE IF s[i] = "[" THEN
        Bind(SkipWs(s, i + 1), LAMBDA j :
            IF j <= Len(s) /\ s[j] = "]" THEN JOk([t |-> "arr", v |-> <<>>], j + 1)
            ELSE Call3(ScanElements, s, j, <<>>))
    ELSE IF HasWord(s, i, "null") THEN JOk(JNull, i + 4)
    ELSE IF HasWord(s, i, "true") THEN JOk([t |-> "bool", v |-> TRUE], i + 4)
    ELSE IF HasWord(s, i, "false") THEN JOk([t |-> "bool", v |-> FALSE], i + 5)
    ELSE ScanNumber(s, i)

\* json.loads(s): one value between optional whitespace, nothing after it.
json_loads(s) ==
    Bind(Call2(ScanValue, s, SkipWs(s, 1)), LAMBDA r :
        IF r.ok /\ SkipWs(s, r.pos) = Len(s) + 1 THEN r ELSE JFail)

(***************************************************************************)
(* safe_json_parse (llm.py)                                                *)
(***************************************************************************)

\* re.sub(r"[\x00-\x1f]+", " ", raw): every run of control characters becomes
\* one space (the last character of the run is kept, as a space).
CleanControl(s) ==
    Bind(SelectSeq([i \in 1..Len(s) |-> i],
                   LAMBDA i : s[i] \notin ControlChars
                              \/ i = Len(s) \/ s[i + 1] \notin ControlChars),
         LAMBDA kept :
            [k \in 1..Len(kept) |->
                IF s[kept[k]] \in ControlChars THEN " " ELSE s[kept[k]]])

\* "Attempt to complete truncated JSON": the missing "}" are appended first,
\* then the missing "]", whatever the nesting was; the counts take every
\* character of the text, those inside string literals too.
CompleteTruncated(s) ==
    Bind(Count(s, "{") - Count(s, "}"), LAMBDA braces :
    Bind(IF braces > 0 THEN s \o Rep("}", braces) ELSE s, LAMBDA s1 :
    Bind(Count(s1, "[") - Count(s1, "]"), LAMBDA brackets :
        IF brackets > 0 THEN s1 \o Rep("]", brackets) ELSE s1)))

RECURSIVE _fix_inner_quotes(_, _, _, _)
\* _fix_inner_quotes: the loop from index i with its in_string and escape_next
\* flags; returns the characters appended to result from i on.
_fix_inner_quotes(text, i, in_string, escape_next) ==
    IF i > Len(text) THEN <<>>
    ELSE IF escape_next
        THEN <<text[i]>> \o _fix_inner_quotes(text, i + 1, in_string, FALSE)
    ELSE IF text[i] = "\\"
        THEN <<text[i]>> \o _fix_inner_quotes(text, i + 1, in_string, TRUE)
    ELSE IF text[i] = "\""
        THEN IF ~in_string
             THEN <<text[i]>> \o _fix_inner_quotes(text, i + 1, TRUE, FALSE)
             ELSE Bind(SkipWs(text, i + 1), LAMBDA rest :
                    IF rest > Len(text) \/ text[rest] \in {",", "}", "]", ":"}
                    THEN <<text[i]>> \o _fix_inner_quotes(text, i + 1, FALSE, FALSE)
                    ELSE <<"\\", "\"">> \o _fix_inner_quotes(text, i + 1, TRUE, FALSE))
    ELSE <<text[i]>> \o _fix_inner_quotes(text, i + 1, in_string, FALSE)

RECURSIVE SubQuoteBrace(_, _)
\* re.sub(r'("\s*\{)', r'", \{', cleaned) from index i: a quote, whitespace
\* and "{" become '", \{' (the template's unknown escape \{ stays as written).
SubQuoteBrace(s, i) ==
    IF i > Len(s) THEN <<>>
    ELSE Bind(SkipWs(s, i + 1), LAMBDA j :
            IF s[i] = "\"" /\ j <= Len(s) /\ s[j] = "{"
            THEN <<"\"", ",", " ", "\\", "{">> \o SubQuoteBrace(s, j + 1)
            ELSE <<s[i]>> \o SubQuoteBrace(s, i + 1))

RECURSIVE SubBraceQuote(_, _)
\* re.sub(r'(\})(\s*")', r"\1, \2", repaired) from index i: "}" followed by
\* whitespace and a quote gets ", " put after the "}".
SubBraceQuote(s, i) ==
    IF i > Len(s) THEN <<>>
    ELSE Bind(SkipWs(s, i + 1), LAMBDA j :
            IF s[i] = "}" /\ j <= Len(s) /\ s[j] = "\""
            THEN <<"}", ",", " ">> \o SubSeq(s, i + 1, j) \o SubBraceQuote(s, j + 1)
            ELSE <<s[i]>> \o SubBraceQuote(s, i + 1))

\* The "missing commas" fallback text.
RepairCommas(s) == SubBraceQuote(SubQuoteBrace(s, 1), 1)

\* safe_json_parse(raw): the value json.loads gave at the first attempt that
\* decoded, else {}.  The value returned is whatever the text decodes to: a
\* mapping only when its top-level value is an object.
safe_json_parse(raw) ==
    IF raw = <<>> THEN EmptyObj
    ELSE Bind(CompleteTruncated(CleanControl(raw)), LAMBDA cleaned :
         Bind(json_loads(cleaned), LAMBDA direct :
            IF direct.ok THEN direct.val
            ELSE Bind(json_loads(_fix_inner_quotes(cleaned, 1, FALSE, FALSE)),
                      LAMBDA fixed :
                    IF fixed.ok THEN fixed.val
                    ELSE Bind(json_loads(RepairCommas(cleaned)),
                              LAMBDA repaired :
                            IF repaired.ok THEN repaired.val ELSE EmptyObj))))

(***************************************************************************)
(* The Python operations the judge and the clients apply to decoded values *)
(***************************************************************************)

\* A call that returns v, and a call that raises an exception with message msg.
Returned(v) == [ok |-> TRUE, v |-> v, err |-> ""]

Raised(msg) == [ok |-> FALSE, v |-> 0, err |-> msg]

RECURSIVE LookUp(_, _, _)
\* The value of key among the members (the last one wins, as in a dict), else dflt.
LookUp(members, key, dflt) ==
    IF members = <<>> THEN dflt
    ELSE IF members[Len(members)][1] = key THEN members[Len(members)][2]
    ELSE Call3(LookUp, SubSeq(members, 1, Len(members) - 1), key, dflt)

\* key in data
HasKey(data, key) == \E k \in 1..Len(data.v) : data.v[k][1] = key

\* type(v).__name__
PyTypeName(v) ==
    CASE v.t = "obj" -> "dict"
      [] v.t = "arr" -> "list"
      [] v.t = "null" -> "NoneType"
      [] OTHER -> v.t

\* data.get(key, dflt): an AttributeError when data is no dict.
DictGet(data, key, dflt) ==
    IF data.t = "obj" THEN Returned(LookUp(data.v, key, dflt))
    ELSE Raised("'" \o PyTypeName(data) \o "' object has no attribute 'get'")

\* Where the digits of a decimal literal start in cs: after leading blanks and
\* an optional sign.
LiteralDigits(cs) ==
    Bind(SkipWs(cs, 1), LAMBDA a :
        IF a <= Len(cs) /\ cs[a] \in {"+", "-"} THEN a + 1 ELSE a)

\* Whether int(str) reads cs: blanks, an optional sign, digits, blanks.
IsIntLiteral(cs) ==
    Bind(LiteralDigits(cs), LAMBDA b :
    Bind(DigitsEnd(cs, b), LAMBDA e :
        e > b /\ SkipWs(cs, e) = Len(cs) + 1))

IntLiteral(cs) ==
    Bind(LiteralDigits(cs), LAMBDA b :
    Bind(NatOf(SubSeq(cs, b, DigitsEnd(cs, b) - 1)), LAMBDA n :
        IF b > 1 /\ cs[b - 1] = "-" THEN -n ELSE n))

\* int(v): an int as it is, a bool as 0/1, a float truncated towards zero, a
\* str parsed as a decimal literal (ValueError otherwise), a TypeError for
\* None, a list or a dict.
PyInt(v) ==
    CASE v.t = "int" -> Returned(v.v)
      [] v.t = "bool" -> Returned(IF v.v THEN 1 ELSE 0)
      [] v.t = "float" ->
            Bind(IF v.v.scale >= 0 THEN v.v.digits \div Pow10(v.v.scale)
                 ELSE v.v.digits * Pow10(-v.v.scale),
                 LAMBDA mag : Returned(IF v.v.neg THEN -mag ELSE mag))
      [] v.t = "str" ->
            Bind(Chars(v.v), LAMBDA cs :
                IF IsIntLiteral(cs) THEN Returned(IntLiteral(cs))
                ELSE Raised("invalid literal for int() with base 10: '" \o v.v \o "'"))
      [] OTHER -> Raised("int() argument must be a string, a bytes-like object or a real number")

\* bool(v)
PyTruthy(v) ==
    CASE v.t = "null" -> FALSE
      [] v.t = "bool" -> v.v
      [] v.t = "int" -> v.v # 0
      [] v.t = "float" -> v.v.digits # 0
      [] v.t = "str" -> v.v # ""
      [] OTHER -> v.v # <<>>

PyMax(a, b) == IF a >= b THEN a ELSE b

PyMin(a, b) == IF a <= b THEN a ELSE b

RECURSIVE NatToStr(_)
NatToStr(n) ==
    IF n < 10 THEN SubSeq("0123456789", n + 1, n + 1)
    ELSE Call1(NatToStr, n \div 10) \o SubSeq("0123456789", (n % 10) + 1, (n % 10) + 1)

\* str(v) of a str, an int or a bool; the renderings of floats, lists and
\* dicts are not spelled out (no reply of the model makes a client render one).
PyStr(v) ==
    CASE v.t = "str" -> v.v
      [] v.t = "int" -> IF v.v < 0 THEN "-" \o NatToStr(-v.v) ELSE NatToStr(v.v)
      [] v.t = "bool" -> IF v.v THEN "True" ELSE "False"
      [] v.t = "null" -> "None"
      [] OTHER -> "<" \o v.t \o ">"

(***************************************************************************)
(* The mocked world: every question has one fixed endpoint behaviour and   *)
(* one fixed judge-provider behaviour.                                     *)
(*   endpoint  [kind |-> "body", body]    HTTP 200 with that body text     *)
(*             [kind |-> "status"]        an HTTP error status             *)
(*             [kind |-> "timeout"]       the request times out            *)
(*   judge     [kind |-> "content", content]  a response with that content *)
(*             [kind |-> "raise", msg]    agenerate raises (also a timeout)*)
(***************************************************************************)

Body(text) == [kind |-> "body", body |-> Chars(text)]

Content(text) == [kind |-> "content", content |-> Chars(text), msg |-> ""]

ProviderRaises(msg) == [kind |-> "raise", content |-> <<>>, msg |-> msg]

Fixture ==
    << [question |-> "capital of France?", answer |-> "Paris",
        endpoint |-> Body("{\"answer\": \"Paris is the capital of France.\"}"),
        judge    |-> Content("{\"score\": 5, \"reason\": \"match\"}")],
       [question |-> "boiling point?", answer |-> "100 C",
        endpoint |-> [kind |-> "timeout"],
        judge    |-> Content("{\"reason\": \"no answer\"}")],
       [question |-> "author?", answer |-> "Orwell",
        endpoint |-> Body("{\"answer\": \"Huxley\"}"),
        judge    |-> ProviderRaises("Request timed out")],
       [question |-> "year?", answer |-> "1969",
        endpoint |-> Body("{\"response\": \"1969\"}"),
        judge    |-> Content("Sure! The answer looks fine")],
       [question |-> "speed of light?", answer |-> "299792458 m/s",
        endpoint |-> Body("{\"answer\": \"299792458 m/s\"}"),
        judge    |-> Content("{\"score\": \"7\", \"reason\": \"great\", \"correctness\": 9, \"relevance\": 0}")],
       [question |-> "largest planet?", answer |-> "Jupiter",
        endpoint |-> Body("{\"answer\": \"Jupiter\"}"),
        judge    |-> Content("{\"score\": \"high\", \"reason\": \"good\"}")],
       [question |-> "symbol of gold?", answer |-> "Au",
        endpoint |-> Body("{\"answer\": \"Ag or Au\"}"),
        judge    |-> Content("{\"score\": 3, \"reason\": \"partial\"}")],
       [question |-> "pi?", answer |-> "3.14159",
        endpoint |-> Body("{\"answer\": \"3.14\"}"),
        judge    |-> Content("{\"score\": 4.5, \"reason\": \"ok\", \"correctness\": \"high\"}")],
       [question |-> "tallest mountain?", answer |-> "Everest",
        endpoint |-> Body("{\"answer\": \"\"}"),
        judge    |-> Content("{\"score\": -2, \"reason\": \"empty\"}")],
       [question |-> "longest river?", answer |-> "Nile",
        endpoint |-> [kind |-> "status"],
        judge    |-> Content("[1]")] >>

Questions == DOMAIN Fixture

(***************************************************************************)
(* RAGClient.query (evaluation.py)                                         *)
(***************************************************************************)

\* The alternative fields tried when the answer field gave nothing.
AltFields == <<"response", "text", "content", "result">>

RECURSIVE FirstAltField(_, _)
\* for alt_field in [...]: if alt_field in data: answer = data[alt_field]; break
FirstAltField(data, k) ==
    IF k > Len(AltFields) THEN JStr("")
    ELSE IF HasKey(data, AltFields[k]) THEN LookUp(data.v, AltFields[k], JStr(""))
    ELSE FirstAltField(data, k + 1)

\* RAGClient.query with answer_field = "answer": the answer text, or a
\* RAGScoreError for every failure (an error status, a timeout, a body that is
\* no JSON, a JSON body that is no object).
RAGClient_query(reply) ==
    IF reply.kind = "status" THEN Raised("RAG endpoint error: 500")
    ELSE IF reply.kind = "timeout" THEN Raised("Failed to query RAG endpoint: ")
    ELSE Bind(json_loads(reply.body), LAMBDA decoded :
            IF ~decoded.ok
            THEN Raised("Failed to query RAG endpoint: Expecting value")
            ELSE Bind(DictGet(decoded.val, "answer", JStr("")), LAMBDA got :
                    IF ~got.ok
                    THEN Raised("Failed to query RAG endpoint: " \o got.err)
                    ELSE Bind(IF PyTruthy(got.v) THEN got.v
                              ELSE FirstAltField(decoded.val, 1),
                              LAMBDA answer :
                            Returned(IF PyTruthy(answer) THEN PyStr(answer) ELSE ""))))

(***************************************************************************)
(* _judge_single (evaluation.py)                                           *)
(***************************************************************************)

_DETAILED_METRICS == <<"correctness", "completeness", "relevance", "conciseness", "faithfulness">>

\* The score at and above which _judge_single sets is_correct.
CorrectScore == 4

\* The except branch of lines 291-295.
JudgeFailed(msg) ==
    [score |-> 1, reason |-> JStr("Evaluation error: " \o msg), data |-> EmptyObj]

\* Lines 286-295: the provider call, the parse and the extraction of score and
\* reason inside the try; any exception gives score 1, the "Evaluation error"
\* reason and data = {}.
JudgeTry(reply) ==
    IF reply.kind = "raise" THEN JudgeFailed(reply.msg)
    ELSE Bind(safe_json_parse(reply.content), LAMBDA data :
         Bind(DictGet(data, "score", JInt(1)), LAMBDA got :
         Bind(IF got.ok THEN PyInt(got.v) ELSE got, LAMBDA score :
            IF ~score.ok THEN JudgeFailed(score.err)
            ELSE [score  |-> score.v,
                  reason |-> LookUp(data.v, "reason", JStr("No reason provided")),
                  data   |-> data])))

\* A judge without line 298: the score stays as the provider gave it.
ClampScore_asis(score) == score

\* Line 298: score = max(1, min(5, score))
ClampScore(score) == PyMax(1, PyMin(5, score))

\* Lines 303-305 (for, get, is not None): the metrics whose value in data is not None.
PresentMetrics(data) ==
    {k \in DOMAIN _DETAILED_METRICS : LookUp(data.v, _DETAILED_METRICS[k], JNull).t # "null"}

\* Line 306, for every metric present: int(val) of each, in the order of
\* _DETAILED_METRICS.
MetricInts(data) ==
    [k \in PresentMetrics(data) |-> PyInt(LookUp(data.v, _DETAILED_METRICS[k], JNull))]

\* Line 315
IsCorrect(score, threshold) == score >= CorrectScore

\* _judge_single(qa, rag_answer, provider, semaphore, detailed), with try, what
\* the try block of lines 286-295 made of the provider's reply: the
\* EvaluationResult it returns, or the exception that the first failing
\* int(val) of line 306 raises outside the try.  threshold is evaluate_rag's
\* correct_threshold, which _judge_single is not given.
_judge_single(qa, rag_answer, try, detailed, threshold) ==
    Bind(ClampScore(try.score), LAMBDA score :
    Bind(IF detailed THEN MetricInts(try.data) ELSE <<>>, LAMBDA ints :
        IF \E k \in DOMAIN ints : ~ints[k].ok
        THEN Raised(ints[CHOOSE k \in DOMAIN ints :
                            /\ ~ints[k].ok
                            /\ \A j \in DOMAIN ints : ~ints[j].ok => k <= j].err)
        ELSE Returned([id            |-> qa.id,
                       question      |-> qa.question,
                       golden_answer |-> qa.answer,
                       rag_answer    |-> rag_answer,
                       score         |-> score,
                       reason        |-> try.reason,
                       is_correct    |-> IsCorrect(score, threshold),
                       metrics       |-> [m \in {_DETAILED_METRICS[k] : k \in DOMAIN ints} |->
                            LET k == CHOOSE j \in DOMAIN ints : _DETAILED_METRICS[j] = m
                            IN  PyMax(1, PyMin(5, ints[k].v))]])))

(***************************************************************************)
(* The summary of evaluate_rag (evaluation.py, lines 369-383)              *)
(***************************************************************************)

\* a / b as a fraction; den = 0 stands for ZeroDivisionError.
TrueDiv(a, b) == [num |-> a, den |-> b]

\* 0.0
ZeroFloat == [num |-> 0, den |-> 1]

RECURSIVE SumScores(_)
SumScores(results) ==
    IF results = <<>> THEN 0
    ELSE Head(results).score + SumScores(Tail(results))

CountCorrect(results) == Cardinality({k \in DOMAIN results : results[k].is_correct})

\* A summary without the "if total > 0" of line 374.
Accuracy_unguarded(correct, total) == TrueDiv(correct, total)

\* Line 374
Accuracy(correct, total) == IF total > 0 THEN TrueDiv(correct, total) ELSE ZeroFloat

\* Line 373
AvgScore(results, total) ==
    IF total > 0 THEN TrueDiv(SumScores(results), total) ELSE ZeroFloat

Summarize(results) ==
    Bind(Len(results), LAMBDA total :
    Bind(CountCorrect(results), LAMBDA correct :
        [total     |-> total,
         correct   |-> correct,
         incorrect |-> total - correct,
         accuracy  |-> Accuracy(correct, total),
         avg_score |-> AvgScore(results, total),
         results   |-> results]))


(***************************************************************************)
(* The document of a summary (evaluation.py, lines 45-59 and 73-84)        *)
(***************************************************************************)

\* round(x, ndigits) of a fraction that is not negative: the nearest multiple
\* of 10^-ndigits, the even one of two that are equally near.
Round(x, ndigits) ==
    Bind(x.num * Pow10(ndigits), LAMBDA scaled :
    Bind(scaled \div x.den, LAMBDA q :
    Bind(scaled % x.den, LAMBDA r :
        [num |-> IF 2 * r > x.den \/ (2 * r = x.den /\ q % 2 = 1) THEN q + 1 ELSE q,
         den |-> Pow10(ndigits)])))

\* EvaluationResult.to_dict: the seven fields and the metrics that are not None.
Result_to_dict(r) ==
    [id            |-> r.id,
     question      |-> r.question,
     golden_answer |-> r.golden_answer,
     rag_answer    |-> r.rag_answer,
     score         |-> r.score,
     reason        |-> r.reason,
     is_correct    |-> r.is_correct,
     metrics       |-> r.metrics]

\* Line 74: "if not r.is_correct"
IsListed(r) == ~r.is_correct

\* EvaluationSummary.to_dict
Summary_to_dict(s) ==
    [summary |-> [total     |-> s.total,
                  correct   |-> s.correct,
                  incorrect |-> s.incorrect,
                  accuracy  |-> Round(s.accuracy, 4),
                  avg_score |-> Round(s.avg_score, 2)],
     incorrect_pairs |->
        Bind(SelectSeq(s.results, IsListed), LAMBDA listed :
            [k \in DOMAIN listed |-> Result_to_dict(listed[k])])]
(***************************************************************************)
(* RAGEndpointClient (assessment.py)                                       *)
(***************************************************************************)

\* status_forcelist of the session's Retry: the statuses the adapter retries
\* and, once max_retries is used up, turns into a RetryError.
StatusForcelist == {429, 500, 502, 503, 504}

Exc(cls, msg) == [cls |-> cls, msg |-> msg]

\* The classes an exception is an instance of.  requests.exceptions:
\* ConnectTimeout(ConnectionError, Timeout), ReadTimeout(Timeout), and
\* ConnectionError, Timeout, RetryError, HTTPError(RequestException).
\* KeyboardInterrupt is a BaseException and no Exception.
Bases(cls) ==
    CASE cls = "ConnectTimeout" ->
            {"ConnectTimeout", "ConnectionError", "Timeout", "RequestException", "Exception"}
      [] cls = "ReadTimeout" -> {"ReadTimeout", "Timeout", "RequestException", "Exception"}
      [] cls \in {"ConnectionError", "RetryError", "HTTPError"} ->
            {cls, "RequestException", "Exception"}
      [] cls = "KeyboardInterrupt" -> {cls, "BaseException"}
      [] OTHER -> {cls, "Exception"}

IsInstance(exc, cls) == cls \in Bases(exc.cls)

\* What the endpoint does with a POST: the exception session.post raises
\* (fault), or the status, headers and body chunks of its response.
Failing(cls) == [fault |-> cls, status |-> 0, ct |-> "", te |-> "", chunks |-> <<>>]

Responding(status, ct, te, chunks) ==
    [fault |-> "none", status |-> status, ct |-> ct, te |-> te, chunks |-> chunks]

Plain(status, text) == Responding(status, "application/json", "", <<Chars(text)>>)

Servers ==
    << Failing("ConnectTimeout"),
       Failing("ReadTimeout"),
       Failing("ConnectionError"),
       Failing("ValueError"),
       Failing("KeyboardInterrupt"),
       Plain(503, "busy"),
       Plain(404, "{\"answer\": \"no\"}"),
       Responding(200, "application/json", "", <<>>),
       Plain(200, "  "),
       Plain(200, "<html>"),
       Plain(200, "[1]"),
       Plain(200, "\"x\""),
       Plain(200, "null"),
       Plain(200, "{\"answer\": \"Paris\"}"),
       Responding(200, "text/event-stream", "chunked",
                  <<Chars("{\"result\":"), <<>>, Chars(" \"42\"}")>>),
       Plain(200, "{\"data\": {\"response\": \"x\"}}"),
       Plain(200, "{\"choices\": [1]}"),
       Plain(200, "{\"answer\": \"\", \"response\": \"ok\"}"),
       Plain(200, "{\"answer\": \" \", \"data\": {\"answer\": \"x\"}}"),
       Plain(200, "{\"data\": {\"msg\": \"hi\"}}"),
       Plain(200, "{\"choices\": [{\"message\": {\"content\": \"hey\"}}]}"),
       Plain(200, "{\"choices\": [], \"output_text\": \"out\"}"),
       Plain(200, "{\"answer\": \"Paris\", \"error\": \"quota exceeded\"}"),
       Plain(200, "{\"answer\": \"Paris\", \"error\": \"\"}") >>

\* _is_streaming
_is_streaming(response) == response.ct = "text/event-stream" \/ response.te = "chunked"

RECURSIVE Flatten(_)
\* "".join(chunks)
Flatten(chunks) == IF chunks = <<>> THEN <<>> ELSE Head(chunks) \o Flatten(Tail(chunks))

\* Lines 188-195: the chunks that are not empty, joined, of a streaming
\* response; response.text otherwise.
BodyOf(response) ==
    IF _is_streaming(response)
    THEN Flatten(SelectSeq(response.chunks, LAMBDA chunk : chunk # <<>>))
    ELSE Flatten(response.chunks)

\* not s.strip()
IsBlank(cs) == \A k \in DOMAIN cs : cs[k] \in Whitespace

TopFields == <<"answer", "response", "result", "msg">>

DataFields == <<"answer", "response", "result">>

\* [obj.get(key) for key in keys]
Fields(obj, keys) == [k \in DOMAIN keys |-> LookUp(obj.v, keys[k], JNull)]

\* any(candidates)
AnyTruthy(candidates) == \E k \in DOMAIN candidates : PyTruthy(candidates[k])

\* Lines 140-148: the fields of the nested data object join the candidates
\* when no candidate so far is truthy.
WithData(res_json, candidates) ==
    IF AnyTruthy(candidates) THEN candidates
    ELSE LET got == LookUp(res_json.v, "data", JNull)
             nested == IF PyTruthy(got) THEN got ELSE EmptyObj
         IN  IF nested.t = "obj" THEN candidates \o Fields(nested, DataFields)
             ELSE candidates

\* Lines 150-157: choices[0].message.content, or else output_text, joins the
\* candidates when none so far is truthy; an AttributeError when choices[0] or
\* its message is no dict.
WithChoices(res_json, candidates) ==
    IF AnyTruthy(candidates) THEN Returned(candidates)
    ELSE LET choices == LookUp(res_json.v, "choices", JNull)
         IN  IF choices.t = "arr" /\ choices.v # <<>>
             THEN LET message == DictGet(choices.v[1], "message", JNull)
                  IN  IF ~message.ok THEN message
                      ELSE LET content == DictGet(IF PyTruthy(message.v) THEN message.v
                                                  ELSE EmptyObj, "content", JNull)
                           IN  IF ~content.ok THEN content
                               ELSE Returned(Append(candidates, content.v))
             ELSE IF HasKey(res_json, "output_text")
             THEN Returned(Append(candidates, LookUp(res_json.v, "output_text", JNull)))
             ELSE Returned(candidates)

\* Line 158: the first candidate that is a str with c.strip() not empty.
IsAnswer(c) == c.t = "str" /\ ~IsBlank(Chars(c.v))

\* _parse_answer(res_json): the answer, or the AttributeError of a .get on
\* what is no dict.
_parse_answer(res_json) ==
    IF res_json.t # "obj" THEN DictGet(res_json, "answer", JNull)
    ELSE Bind(WithChoices(res_json, WithData(res_json, Fields(res_json, TopFields))),
              LAMBDA found :
                IF ~found.ok THEN found
                ELSE IF \E k \in DOMAIN found.v : IsAnswer(found.v[k])
                THEN Returned(found.v[CHOOSE k \in DOMAIN found.v :
                                        /\ IsAnswer(found.v[k])
                                        /\ \A j \in 1..(k - 1) : ~IsAnswer(found.v[j])].v)
                ELSE Returned(""))

\* The tuple query returns.
QueryResult(answer, raw, ms) == [answer |-> answer, raw |-> raw, ms |-> ms]

\* {"error": text}
ErrorPayload(text) == JObj(<<<<"error", JStr(text)>>>>)

\* (time.time() - start_time) * 1000
ElapsedMs(now, start) == (now - start) * 1000

\* body[:500]
Preview(body) == SubSeq(body, 1, IF Len(body) < 500 THEN Len(body) ELSE 500)

\* Lines 199-208, with the body and response_time_ms of lines 188-197: the
\* tuple returned, or the exception that _parse_answer raises inside the try.
\* The decoder's message is not spelled out: "Expecting value" stands for it.
AfterBody(body, ms) ==
    IF body = <<>> \/ IsBlank(body)
    THEN Returned(QueryResult("", ErrorPayload("Empty response body"), ms))
    ELSE Bind(json_loads(body), LAMBDA decoded :
            IF ~decoded.ok
            THEN Returned(QueryResult("",
                    JObj(<< <<"error", JStr("JSON parse error: Expecting value")>>,
                            <<"body_preview", JStr(Join(Preview(body)))>> >>), ms))
            ELSE Bind(_parse_answer(decoded.val), LAMBDA answer :
                    IF answer.ok THEN Returned(QueryResult(answer.v, decoded.val, ms))
                    ELSE Raised(Exc("AttributeError", answer.err))))

\* A query whose clause for RequestException comes before the one for Timeout.
ExceptClauses_httpFirst(exc, ms) ==
    IF IsInstance(exc, "RequestException")
    THEN Returned(QueryResult("", ErrorPayload("HTTP error: " \o exc.msg), ms))
    ELSE IF IsInstance(exc, "Timeout")
    THEN Returned(QueryResult("", ErrorPayload("Request timeout"), ms))
    ELSE IF IsInstance(exc, "Exception")
    THEN Returned(QueryResult("", ErrorPayload("Unexpected error: " \o exc.msg), ms))
    ELSE Raised(exc)

\* Lines 210-218: the except clauses, tried in their order; what no clause
\* catches leaves query as it was raised.
ExceptClauses(exc, ms) ==
    IF IsInstance(exc, "Timeout")
    THEN Returned(QueryResult("", ErrorPayload("Request timeout"), ms))
    ELSE IF IsInstance(exc, "RequestException")
    THEN Returned(QueryResult("", ErrorPayload("HTTP error: " \o exc.msg), ms))
    ELSE IF IsInstance(exc, "Exception")
    THEN Returned(QueryResult("", ErrorPayload("Unexpected error: " \o exc.msg), ms))
    ELSE Raised(exc)

(***************************************************************************)
(* evaluate_rag (evaluation.py): one asyncio task per QA pair, all of them *)
(* sharing one semaphore; the caller awaits their gather.                  *)
(***************************************************************************)

\* Bounds of the model: the longest QA list, the largest concurrency, the
\* largest max_retries of a client and the last reading of the clock.
MaxItems == 2

MaxConcurrency == 2

MaxRetries == 2

MaxClock == 2

\* The values of correct_threshold the caller passes (4 is the default).
Thresholds == {3, 4}

VARIABLES
    golden_qas,         \* the QA list: the questions, as indexes of Fixture
    concurrency,        \* evaluate_rag's arguments
    correct_threshold,
    detailed,
    pc,                 \* where each task process_qa(qa) stands
    rag_answer,         \* each task's local rag_answer
    task_result,        \* what each finished task returned or raised
    permits,            \* the semaphore's value
    done_order,         \* the items in the order in which their tasks returned
    batch,              \* evaluate_rag itself: running, returned, raised, cancelled
    summary,            \* what the caller of evaluate_rag received
    document,           \* summary.to_dict() as the caller wrote it out
    server,             \* RAGEndpointClient.query: the endpoint, an index of Servers
    max_retries,        \* the client's max_retries
    q_pc,               \* where the call of query stands
    attempts,           \* the retries the adapter has used
    clock,              \* time.time()
    start_time,         \* query's start_time
    in_hand,            \* the response, or the exception raised inside the try
    returned,           \* the tuples query has returned to its caller
    loader,             \* the loader called: load_golden_qas or load_qa_pairs
    exists,             \* path.exists()
    f,                  \* the file's lines, as indexes of LineTexts
    line_no,            \* the line the loop reads next
    qas,                \* the pairs loaded so far
    load_pc,            \* where the loader stands
    load_exc,           \* the exception the loader raised
    weights,            \* AdvancedEvaluator: self.weights, in hundredths
    enabled,            \* which of its sub-evaluators the constructor built
    latency_ms,         \* evaluate's argument
    a_pc,               \* where the call of evaluate stands
    basic,              \* evaluate's locals: the basic scores,
    sub,                \* the sub-evaluators' scores
    adv_result,         \* what evaluate returned
    completion,         \* safe_json_parse: the text it is called with
    working,            \* its local cleaned
    parse_pc,           \* where the call stands
    parsed,             \* what it returned
    qa_pairs,           \* run_assessment: what load_qa_pairs returned
    max_samples,        \* its argument
    m_pc,               \* where the call stands
    limited,            \* qa_pairs after the limit of max_samples
    assessed,           \* its list results
    qa_no,              \* the place of the loop in the list
    target,             \* assess_single: the tuple query returned
    eval_result,        \* its eval_result
    journal,            \* the calls made so far, in their order
    sample_chunks,      \* _quick_test_async: the chunks sampled, as indexes of ChunkFixture
    quick_concurrency,  \* its arguments concurrency
    quick_detailed,     \* and detailed
    chunk_pc,           \* where each task process_chunk(chunk) stands
    quick_permits,      \* the semaphore's value
    chunk_answer,       \* each task's local rag_answer
    raw_results,        \* what each finished task returned
    corrections,        \* the list corrections the tasks share
    quick_pc,           \* _quick_test_async itself
    quick_result,       \* the QuickTestResult it returned
    scorer,             \* LatencyScorer: self, the three thresholds
    asked,              \* score's argument latency_ms
    t_pc,               \* where the call of score stands
    score_calls         \* the calls that returned, each with its latency

config == <<golden_qas, concurrency, correct_threshold, detailed>>

\* The variables of the JSONL loaders.
lvars == <<loader, exists, f, line_no, qas, load_pc, load_exc>>

\* The variables of AdvancedEvaluator.evaluate.
avars == <<weights, enabled, latency_ms, a_pc, basic, sub, adv_result>>

\* The variables of safe_json_parse.
svars == <<completion, working, parse_pc, parsed>>

\* The variables of RAGAssessment.run_assessment.
mvars == <<qa_pairs, max_samples, m_pc, limited, assessed, qa_no, target, eval_result, journal>>

\* The variables of _quick_test_async.
kvars ==
    <<sample_chunks, quick_concurrency, quick_detailed, chunk_pc, quick_permits, chunk_answer,
      raw_results, corrections, quick_pc, quick_result>>

\* The variables of LatencyScorer.score.
tvars == <<scorer, asked, t_pc, score_calls>>

\* The variables of the operations modelled apart from the batch, the client,
\* the loaders and the advanced evaluator.
ovars == <<svars, mvars, kvars, tvars>>

\* The variables of evaluate_rag and those of RAGEndpointClient.query, each
\* with the variables of the operations that stand still meanwhile.
evars ==
    <<config, pc, rag_answer, task_result, permits, done_order, batch, summary, document, lvars,
      avars, ovars>>

qvars ==
    <<server, max_retries, q_pc, attempts, clock, start_time, in_hand, returned, lvars, avars,
      ovars>>

vars == <<evars, qvars>>

Items == DOMAIN golden_qas

\* golden_qas[i] as the dict the tasks read.
QA(i) == [id       |-> i,
          question |-> Fixture[golden_qas[i]].question,
          answer   |-> Fixture[golden_qas[i]].answer]

NoResult == [ok |-> FALSE, v |-> 0, err |-> "pending"]

NoSummary == [total |-> -1]

NoDocument == [incorrect_pairs |-> <<>>]

\* The QA lists of the model: up to MaxItems distinct questions.
QALists ==
    UNION {{qs \in [1..n -> Questions] : \A a, b \in 1..n : a < b => qs[a] < qs[b]}
           : n \in 0..MaxItems}

\* No loader under way.
LoadIdle ==
    /\ loader = "load_golden_qas"
    /\ exists = FALSE
    /\ f = <<>>
    /\ line_no = 1
    /\ qas = <<>>
    /\ load_pc = "idle"
    /\ load_exc = ""

NoScores == [accuracy_score |-> -1]

NoSub == [latency_score |-> -1]

NoResult_adv == [advanced_overall |-> [num |-> -1, den |-> 1]]

\* No call of AdvancedEvaluator.evaluate under way.
AdvIdle ==
    /\ weights = [k \in {} |-> 0]
    /\ enabled = [hallucination |-> FALSE, citation |-> FALSE, latency |-> FALSE]
    /\ latency_ms = 0
    /\ a_pc = "idle"
    /\ basic = NoScores
    /\ sub = NoSub
    /\ adv_result = NoResult_adv

\* No call of safe_json_parse under way.
ParseIdle ==
    /\ completion = [doc |-> 0, cut |-> 0]
    /\ working = <<>>
    /\ parse_pc = "idle"
    /\ parsed = EmptyObj

NoTarget == [answer |-> "", raw |-> EmptyObj, ms |-> 0]

NoEval ==
    [accuracy_score |-> -1, relevance_score |-> -1, completeness_score |-> -1,
     reasoning |-> JNull]

\* No call of run_assessment under way.
AssessIdle ==
    /\ qa_pairs = <<>>
    /\ max_samples = [none |-> TRUE, n |-> 0]
    /\ m_pc = "idle"
    /\ limited = <<>>
    /\ assessed = <<>>
    /\ qa_no = 1
    /\ target = NoTarget
    /\ eval_result = NoEval
    /\ journal = <<>>

NoQuickResult == [total |-> -1]

\* No call of _quick_test_async under way.
QuickIdle ==
    /\ sample_chunks = <<>>
    /\ quick_concurrency = 1
    /\ quick_detailed = FALSE
    /\ chunk_pc = <<>>
    /\ quick_permits = 1
    /\ chunk_answer = <<>>
    /\ raw_results = <<>>
    /\ corrections = <<>>
    /\ quick_pc = "idle"
    /\ quick_result = NoQuickResult

\* No call of LatencyScorer.score under way.
ScorerIdle ==
    /\ scorer = [excellent |-> 500, good |-> 2000, acceptable |-> 5000]
    /\ asked = 0
    /\ t_pc = "idle"
    /\ score_calls = <<>>

OthersIdle == ParseIdle /\ AssessIdle /\ QuickIdle /\ ScorerIdle

\* No call of query under way.
QueryIdle ==
    /\ server = 1
    /\ max_retries = 0
    /\ q_pc = "idle"
    /\ attempts = 0
    /\ clock = 0
    /\ start_time = 0
    /\ in_hand = Exc("none", "")
    /\ returned = <<>>

Init ==
    /\ QueryIdle
    /\ LoadIdle
    /\ AdvIdle
    /\ OthersIdle
    /\ golden_qas \in QALists
    /\ concurrency \in 1..MaxConcurrency
    /\ correct_threshold \in Thresholds
    /\ detailed \in BOOLEAN
    /\ pc = [i \in Items |-> "pending"]
    /\ rag_answer = [i \in Items |-> ""]
    /\ task_result = [i \in Items |-> NoResult]
    /\ permits = concurrency
    /\ done_order = <<>>
    /\ batch = "running"
    /\ summary = NoSummary
    /\ document = NoDocument

\* A semaphore that never makes a task wait.
CanAcquire_always == TRUE

\* asyncio.Semaphore: acquire() goes through only while the value is positive.
CanAcquire == permits > 0

\* process_qa, line 356: the task enters "async with semaphore" for its query.
StartQuery(i) ==
    /\ batch = "running"
    /\ pc[i] = "pending"
    /\ CanAcquire
    /\ permits' = permits - 1
    /\ pc' = [pc EXCEPT ![i] = "querying"]
    /\ UNCHANGED <<qvars, config, document, rag_answer, task_result, done_order, batch, summary>>

\* Lines 357-360: what the task keeps as rag_answer once its query has ended.
QueryOutcome(q) ==
    LET r == RAGClient_query(Fixture[q].endpoint)
    IN  IF r.ok THEN r.v ELSE "[ERROR: " \o r.err \o "]"

\* The endpoint's behaviour is fixed per question: each question's outcome,
\* computed once.
Answered == [q \in Questions |-> QueryOutcome(q)]

\* Lines 358-360: the query returns or raises; the permit is released.
QueryReturn(i) ==
    /\ batch = "running"
    /\ pc[i] = "querying"
    /\ rag_answer' = [rag_answer EXCEPT ![i] = Answered[golden_qas[i]]]
    /\ permits' = permits + 1
    /\ pc' = [pc EXCEPT ![i] = "queried"]
    /\ UNCHANGED <<qvars, config, document, task_result, done_order, batch, summary>>

\* _judge_single, line 285: the task enters "async with semaphore" for the judge.
StartJudge(i) ==
    /\ batch = "running"
    /\ pc[i] = "queried"
    /\ CanAcquire
    /\ permits' = permits - 1
    /\ pc' = [pc EXCEPT ![i] = "judging"]
    /\ UNCHANGED <<qvars, config, document, rag_answer, task_result, done_order, batch, summary>>

\* What the task of item i judges: its own rag_answer.
AnswerToJudge(i) == rag_answer[i]

\* The provider's reply is fixed per question: what the try block of
\* _judge_single makes of each question's reply, computed once.
Tried == [q \in Questions |-> JudgeTry(Fixture[q].judge)]

\* Tasks that share one prompt: the provider answers about the item that
\* resolved last.
ProviderReply_shared(i) ==
    Tried[golden_qas[IF done_order = <<>> THEN i ELSE done_order[Len(done_order)]]]

\* Lines 265-287: the prompt is built from the task's own qa; the provider
\* replies to it.
ProviderReply(i) == Tried[golden_qas[i]]

\* Lines 287-317: the provider replies; the permit is released; the task
\* returns its EvaluationResult, or raises what int(val) raised.
JudgeReturn(i) ==
    LET r == _judge_single(QA(i), AnswerToJudge(i), ProviderReply(i),
                         detailed, correct_threshold)
    IN  /\ batch = "running"
        /\ pc[i] = "judging"
        /\ permits' = permits + 1
        /\ pc' = [pc EXCEPT ![i] = IF r.ok THEN "resolved" ELSE "raised"]
        /\ task_result' = [task_result EXCEPT ![i] = r]
        /\ done_order' = IF r.ok THEN Append(done_order, i) ELSE done_order
        /\ UNCHANGED <<qvars, config, document, rag_answer, batch, summary>>

\* A gather that lists the results as the tasks returned them.
GatherResults_completion == [k \in DOMAIN done_order |-> task_result[done_order[k]].v]

\* async_pbar.gather(*tasks): the progress-bar wrapper of asyncio.gather
\* (quick_test.py calls the two interchangeably); the list it returns holds
\* the tasks' results in the order of its arguments.
GatherResults == [i \in Items |-> task_result[i].v]

\* Lines 367-383: every task has returned; evaluate_rag builds the summary.
GatherReturn ==
    /\ batch = "running"
    /\ \A i \in Items : pc[i] = "resolved"
    /\ batch' = "returned"
    /\ summary' = Summarize(GatherResults)
    /\ UNCHANGED <<qvars, config, document, pc, rag_answer, task_result, permits, done_order>>

\* The caller writes summary.to_dict() out (run_evaluation, lines 528-533).
SaveResults ==
    /\ batch = "returned"
    /\ document = NoDocument
    /\ document' = Summary_to_dict(summary)
    /\ UNCHANGED <<qvars, config, pc, rag_answer, task_result, permits, done_order, batch,
                   summary>>

Live == {"pending", "querying", "queried", "judging"}

\* A cancellation that gives back the permits of the queries under way only.
Held_kept == Cardinality({i \in Items : pc[i] = "querying"})

\* The permits the unfinished tasks give back when they are cancelled.
Held == Cardinality({i \in Items : pc[i] \in {"querying", "judging"}})

\* Line 367: a task has raised; gather hands the exception to evaluate_rag,
\* which has no handler, so the caller receives the exception and the event
\* loop cancels the tasks still running.
GatherRaise ==
    /\ batch = "running"
    /\ \E i \in Items : pc[i] = "raised"
    /\ batch' = "raised"
    /\ pc' = [i \in Items |-> IF pc[i] \in Live THEN "cancelled" ELSE pc[i]]
    /\ permits' = permits + Held
    /\ UNCHANGED <<qvars, config, document, rag_answer, task_result, done_order, summary>>

\* The caller cancels the batch (an interrupt, a cancelled task) while
\* evaluate_rag awaits the gather: CancelledError is thrown into every task
\* still running and into evaluate_rag, which has no handler for it.
Cancel ==
    /\ batch = "running"
    /\ batch' = "cancelled"
    /\ pc' = [i \in Items |-> IF pc[i] \in Live THEN "cancelled" ELSE pc[i]]
    /\ permits' = permits + Held
    /\ UNCHANGED <<qvars, config, document, rag_answer, task_result, done_order, summary>>

Next ==
    \/ \E i \in Items : StartQuery(i)
    \/ \E i \in Items : QueryReturn(i)
    \/ \E i \in Items : StartJudge(i)
    \/ \E i \in Items : JudgeReturn(i)
    \/ GatherReturn
    \/ SaveResults
    \/ GatherRaise
    \/ Cancel

Spec == Init /\ [][Next]_vars

\* evaluate_rag left to run: the caller does not cancel the batch.
NextLive ==
    \/ \E i \in Items : StartQuery(i)
    \/ \E i \in Items : QueryReturn(i)
    \/ \E i \in Items : StartJudge(i)
    \/ \E i \in Items : JudgeReturn(i)
    \/ GatherReturn
    \/ SaveResults
    \/ GatherRaise

\* The event loop runs a task that can take a step, and every query and judge
\* call under way comes back: some step that can be taken is taken.
SpecLive == Init /\ [][NextLive]_vars /\ WF_vars(NextLive)

(***************************************************************************)
(* RAGEndpointClient.query (assessment.py, lines 161-218): one call, from  *)
(* the POST to the tuple returned.                                         *)
(***************************************************************************)

\* No batch: evaluate_rag with an empty QA list, before any step.
NoBatch ==
    /\ golden_qas = <<>>
    /\ concurrency = 1
    /\ correct_threshold = 4
    /\ detailed = FALSE
    /\ pc = <<>>
    /\ rag_answer = <<>>
    /\ task_result = <<>>
    /\ permits = 1
    /\ done_order = <<>>
    /\ batch = "running"
    /\ summary = NoSummary
    /\ document = NoDocument

InitQuery ==
    /\ NoBatch
    /\ LoadIdle
    /\ AdvIdle
    /\ OthersIdle
    /\ server \in DOMAIN Servers
    /\ max_retries \in 0..MaxRetries
    /\ q_pc = "idle"
    /\ attempts = 0
    /\ clock = 0
    /\ start_time = 0
    /\ in_hand = Exc("none", "")
    /\ returned = <<>>

\* Lines 172-176: the payload is built, start_time is read.
QueryStart ==
    /\ q_pc = "idle"
    /\ start_time' = clock
    /\ q_pc' = "posting"
    /\ UNCHANGED <<evars, server, max_retries, attempts, clock, in_hand, returned>>

\* Time passes while the call waits for the endpoint or runs its own code.
Tick ==
    /\ q_pc \in {"posting", "responded", "handling"}
    /\ clock < MaxClock
    /\ clock' = clock + 1
    /\ UNCHANGED <<evars, server, max_retries, q_pc, attempts, start_time, in_hand, returned>>

\* Lines 179-184: session.post raises.
PostFault ==
    /\ q_pc = "posting"
    /\ Servers[server].fault # "none"
    /\ in_hand' = Exc(Servers[server].fault, "post failed")
    /\ q_pc' = "handling"
    /\ UNCHANGED <<evars, server, max_retries, attempts, clock, start_time, returned>>

\* Lines 89-95: the adapter retries a status of status_forcelist.
PostRetry ==
    /\ q_pc = "posting"
    /\ Servers[server].fault = "none"
    /\ Servers[server].status \in StatusForcelist
    /\ attempts < max_retries
    /\ attempts' = attempts + 1
    /\ UNCHANGED <<evars, server, max_retries, q_pc, clock, start_time, in_hand, returned>>

\* Lines 89-95: no retry is left for a status of status_forcelist; session.post
\* raises RetryError.
PostExhausted ==
    /\ q_pc = "posting"
    /\ Servers[server].fault = "none"
    /\ Servers[server].status \in StatusForcelist
    /\ attempts = max_retries
    /\ in_hand' = Exc("RetryError", "too many error responses")
    /\ q_pc' = "handling"
    /\ UNCHANGED <<evars, server, max_retries, attempts, clock, start_time, returned>>

\* Lines 179-184: session.post returns the response.
PostReturns ==
    /\ q_pc = "posting"
    /\ Servers[server].fault = "none"
    /\ Servers[server].status \notin StatusForcelist
    /\ in_hand' = Servers[server]
    /\ q_pc' = "responded"
    /\ UNCHANGED <<evars, server, max_retries, attempts, clock, start_time, returned>>

\* Lines 185-208: raise_for_status, the body, response_time_ms, the decoding
\* and the answer: query returns, or an exception is raised inside the try.
ReadBody ==
    LET r == IF 400 <= in_hand.status /\ in_hand.status < 600
             THEN Raised(Exc("HTTPError", "error status"))
             ELSE Call2(AfterBody, BodyOf(in_hand), ElapsedMs(clock, start_time))
    IN  /\ q_pc = "responded"
        /\ IF r.ok
           THEN /\ returned' = Append(returned, r.v)
                /\ q_pc' = "returned"
                /\ UNCHANGED in_hand
           ELSE /\ in_hand' = r.err
                /\ q_pc' = "handling"
                /\ UNCHANGED returned
        /\ UNCHANGED <<evars, server, max_retries, attempts, clock, start_time>>

\* Lines 210-218: the except clauses; query returns, or the exception leaves it.
ExceptHandler ==
    LET r == ExceptClauses(in_hand, ElapsedMs(clock, start_time))
    IN  /\ q_pc = "handling"
        /\ IF r.ok
           THEN /\ returned' = Append(returned, r.v)
                /\ q_pc' = "returned"
           ELSE /\ q_pc' = "propagated"
                /\ UNCHANGED returned
        /\ UNCHANGED <<evars, server, max_retries, attempts, clock, start_time, in_hand>>

NextQuery ==
    \/ QueryStart
    \/ Tick
    \/ PostFault
    \/ PostRetry
    \/ PostExhausted
    \/ PostReturns
    \/ ReadBody
    \/ ExceptHandler

SpecQuery == InitQuery /\ [][NextQuery]_vars


(***************************************************************************)
(* The JSONL loaders: load_golden_qas (evaluation.py, lines 386-415) and   *)
(* RAGAssessment.load_qa_pairs (assessment.py, lines 363-379).             *)
(***************************************************************************)

\* The longest file of the model, in lines.
MaxLines == 3

\* The lines a file of the model is made of.
LineTexts ==
    << "{\"id\": \"1\", \"question\": \"q1\", \"answer\": \"a1\"}",
       "{\"id\": \"2\", \"question\": \"q2\", \"answer\": \"a2\", \"difficulty\": \"easy\"}",
       "{\"question\": \"q3\"}",
       "{\"question\": \"q4\", \"answer\"",
       "7",
       "\"note\"",
       "[1]",
       "" >>

\* json.loads of each line, computed once.
DecodedLine == [k \in DOMAIN LineTexts |-> json_loads(Chars(LineTexts[k]))]

\* Whether text s holds word w somewhere.
Contains(s, w) == \E i \in 1..(Len(s) + 1) : HasWord(s, i, w)

\* key in v: membership in a dict's keys, in a list, substring of a str; a
\* TypeError for what is no container.
PyIn(key, v) ==
    CASE v.t = "obj" -> Returned(HasKey(v, key))
      [] v.t = "arr" -> Returned(\E k \in DOMAIN v.v : v.v[k].t = "str" /\ v.v[k].v = key)
      [] v.t = "str" -> Returned(Contains(Chars(v.v), key))
      [] OTHER -> Raised("argument of type '" \o PyTypeName(v) \o "' is not iterable")

\* load_golden_qas, lines 402-410, for one line: the list of what the line
\* adds to qas, or the exception that leaves the loop (only JSONDecodeError
\* is caught).
GoldenLine(k) ==
    IF IsBlank(Chars(LineTexts[k])) \/ ~DecodedLine[k].ok THEN Returned(<<>>)
    ELSE Bind(PyIn("question", DecodedLine[k].val), LAMBDA has_q :
            IF ~has_q.ok THEN has_q
            ELSE IF ~has_q.v THEN Returned(<<>>)
            ELSE Bind(PyIn("answer", DecodedLine[k].val), LAMBDA has_a :
                    IF ~has_a.ok THEN has_a
                    ELSE IF has_a.v THEN Returned(<<DecodedLine[k].val>>)
                    ELSE Returned(<<>>)))

\* The fields of the dataclass QAPair; the first RequiredFields of them have
\* no default.
QAPairFields ==
    <<"id", "question", "answer", "rationale", "support_span", "doc_id", "chunk_id",
      "source_path", "difficulty">>

RequiredFields == 3

\* QAPair(**data): a TypeError when data is no mapping, has a key that is no
\* field, or lacks a required field.
QAPair(data) ==
    IF data.t # "obj" THEN Raised("argument after ** must be a mapping")
    ELSE IF \E m \in DOMAIN data.v : \A j \in DOMAIN QAPairFields : data.v[m][1] # QAPairFields[j]
    THEN Raised("__init__() got an unexpected keyword argument")
    ELSE IF \E j \in 1..RequiredFields : ~HasKey(data, QAPairFields[j])
    THEN Raised("__init__() missing required positional arguments")
    ELSE Returned(JObj([j \in DOMAIN QAPairFields |->
                          <<QAPairFields[j], LookUp(data.v, QAPairFields[j], JStr(""))>>]))

\* load_qa_pairs, lines 371-377, for one line: JSONDecodeError and TypeError
\* are caught and the line is skipped.
PairLine(k) ==
    IF ~DecodedLine[k].ok THEN Returned(<<>>)
    ELSE Bind(QAPair(DecodedLine[k].val), LAMBDA pair :
            IF pair.ok THEN Returned(<<pair.v>>) ELSE Returned(<<>>))

\* What each loader makes of each line, computed once.
LineStep ==
    [name \in {"load_golden_qas", "load_qa_pairs"} |->
        [k \in DOMAIN LineTexts |-> IF name = "load_golden_qas" THEN GoldenLine(k) ELSE PairLine(k)]]

\* The files of the model: up to MaxLines lines.
Files == UNION {[1..n -> DOMAIN LineTexts] : n \in 0..MaxLines}

\* The variables of evaluate_rag and of query alone.
pvars ==
    <<config, pc, rag_answer, task_result, permits, done_order, batch, summary, document>>

cvars == <<server, max_retries, q_pc, attempts, clock, start_time, in_hand, returned>>

InitLoad ==
    /\ NoBatch
    /\ QueryIdle
    /\ AdvIdle
    /\ OthersIdle
    /\ loader \in {"load_golden_qas", "load_qa_pairs"}
    /\ exists \in BOOLEAN
    /\ f \in IF exists THEN Files ELSE {<<>>}
    /\ line_no = 1
    /\ qas = <<>>
    /\ load_pc = "called"
    /\ load_exc = ""

\* Lines 396-398 and 365-366: a missing file raises FileNotFoundError.
OpenFile ==
    /\ load_pc = "called"
    /\ IF exists
       THEN load_pc' = "reading" /\ UNCHANGED load_exc
       ELSE load_pc' = "raised" /\ load_exc' = "FileNotFoundError"
    /\ UNCHANGED <<pvars, cvars, avars, ovars, loader, exists, f, line_no, qas>>

\* One turn of "for line in f".
ReadLine ==
    LET r == LineStep[loader][f[line_no]]
    IN  /\ load_pc = "reading"
        /\ line_no <= Len(f)
        /\ IF r.ok
           THEN /\ qas' = qas \o r.v
                /\ line_no' = line_no + 1
                /\ UNCHANGED <<load_pc, load_exc>>
           ELSE /\ load_pc' = "raised"
                /\ load_exc' = "TypeError"
                /\ UNCHANGED <<qas, line_no>>
        /\ UNCHANGED <<pvars, cvars, avars, ovars, loader, exists, f>>

\* Lines 412-415 and 379: the loop is over; load_golden_qas raises ValueError
\* when it has no pair, and otherwise the list is returned.
EndOfFile ==
    /\ load_pc = "reading"
    /\ line_no > Len(f)
    /\ IF loader = "load_golden_qas" /\ qas = <<>>
       THEN load_pc' = "raised" /\ load_exc' = "ValueError"
       ELSE load_pc' = "returned" /\ UNCHANGED load_exc
    /\ UNCHANGED <<pvars, cvars, avars, ovars, loader, exists, f, line_no, qas>>

NextLoad ==
    \/ OpenFile
    \/ ReadLine
    \/ EndOfFile

SpecLoad == InitLoad /\ [][NextLoad]_vars

(***************************************************************************)
(* LatencyScorer and AdvancedEvaluator.evaluate (advanced_evaluator.py).   *)
(* Scores and weights are fractions [num, den]; a weight is held in        *)
(* hundredths (0.25 is 25).                                                *)
(***************************************************************************)

\* The largest latency of the model, in steps of 500 ms.
MaxLatencySteps == 24

\* LatencyScorer(): the default thresholds.
LatencyScorer == [excellent |-> 500, good |-> 2000, acceptable |-> 5000]

\* int(x) of a fraction with a positive denominator: towards zero.
IntOf(x) == IF x.num >= 0 THEN x.num \div x.den ELSE -((-x.num) \div x.den)

\* max(0, x) of a fraction with a positive denominator.
MaxZero(x) == IF x.num >= 0 THEN x ELSE [num |-> 0, den |-> 1]

\* f"{label} ({latency_ms:.0f}ms)"
Describe(label, ms) == label \o " (" \o NatToStr(ms) \o "ms)"

\* A scorer whose slow branch has no max(0, ...).
SlowScore_unfloored(self, ms) == IntOf([num |-> 60 * 1000 - (ms - self.acceptable) * 10, den |-> 1000])

\* Line 319: int(max(0, 60 - ((latency_ms - self.acceptable) / 1000) * 10))
SlowScore(self, ms) ==
    IntOf(MaxZero([num |-> 60 * 1000 - (ms - self.acceptable) * 10, den |-> 1000]))

\* LatencyScorer.score
LatencyScorer_score(self, ms) ==
    IF ms <= self.excellent
    THEN [score |-> 100, is_slow |-> FALSE, desc |-> Describe("Excellent", ms)]
    ELSE IF ms <= self.good
    THEN [score |-> IntOf([num |-> 100 * (self.good - self.excellent)
                                        - (ms - self.excellent) * 20,
                           den |-> self.good - self.excellent]),
          is_slow |-> FALSE, desc |-> Describe("Good", ms)]
    ELSE IF ms <= self.acceptable
    THEN [score |-> IntOf([num |-> 80 * (self.acceptable - self.good)
                                        - (ms - self.good) * 20,
                           den |-> self.acceptable - self.good]),
          is_slow |-> FALSE, desc |-> Describe("Acceptable", ms)]
    ELSE [score |-> SlowScore(self, ms), is_slow |-> TRUE, desc |-> Describe("Slow", ms)]

\* Lines 356-364: the default weights.
DefaultWeights ==
    [k \in {"accuracy", "relevance", "completeness", "hallucination", "citation", "latency"} |->
        CASE k = "accuracy" -> 25
          [] k = "relevance" -> 20
          [] k = "completeness" -> 20
          [] k = "hallucination" -> 20
          [] k = "citation" -> 10
          [] k = "latency" -> 5]

\* The weights a caller passes: none, an empty dict, some of the components,
\* all of them.
WeightArgs ==
    { [k \in {} |-> 0],
      [k \in {"accuracy", "latency"} |-> 50],
      [k \in DOMAIN DefaultWeights |-> IF k \in {"accuracy", "latency"} THEN 50 ELSE 0],
      [k \in DOMAIN DefaultWeights |-> IF k = "accuracy" THEN 100 ELSE 50] }

\* Line 356: weights or {...}
WeightsOrDefault(given) == IF DOMAIN given = {} THEN DefaultWeights ELSE given

\* The judge's reply to _get_basic_scores: the three scores it gave, or a
\* failure of the call.
BasicReplies ==
    { [ok |-> FALSE, given |-> <<0, 0, 0>>],
      [ok |-> TRUE, given |-> <<80, 60, 100>>],
      [ok |-> TRUE, given |-> <<130, -5, 0>>] }

\* max(0, min(100, v))
Clamp100(v) == PyMax(0, PyMin(100, v))

\* _get_basic_scores: the scores clamped to 0..100; 50 each when the call fails.
_get_basic_scores(reply) ==
    IF reply.ok
    THEN [accuracy_score     |-> Clamp100(reply.given[1]),
          relevance_score    |-> Clamp100(reply.given[2]),
          completeness_score |-> Clamp100(reply.given[3])]
    ELSE [accuracy_score |-> 50, relevance_score |-> 50, completeness_score |-> 50]

\* The scores a detector that runs may come back with.
DetectorScores == {0, 100}

\* The terms of advanced_overall in the order of lines 488-493: the weight's
\* key and the score it multiplies.
Terms(scores, subs) ==
    << <<"accuracy", scores.accuracy_score>>,
       <<"relevance", scores.relevance_score>>,
       <<"completeness", scores.completeness_score>>,
       <<"hallucination", subs.hallucination_score>>,
       <<"citation", subs.citation_quality_score>>,
       <<"latency", subs.latency_score>> >>

RECURSIVE WeightedSum(_, _, _)
\* The sum of w[key] * score over the terms from k on, in hundredths.
WeightedSum(w, terms, k) ==
    IF k > Len(terms) THEN 0
    ELSE w[terms[k][1]] * terms[k][2] + WeightedSum(w, terms, k + 1)

\* Lines 487-494: self.weights[key] raises KeyError for the first key the
\* weights lack.
AdvancedOverall(w, terms) ==
    IF \E k \in DOMAIN terms : terms[k][1] \notin DOMAIN w
    THEN Raised("KeyError: " \o terms[CHOOSE k \in DOMAIN terms :
                                        /\ terms[k][1] \notin DOMAIN w
                                        /\ \A j \in 1..(k - 1) : terms[j][1] \in DOMAIN w][1])
    ELSE Returned([num |-> WeightedSum(w, terms, 1), den |-> 100])

\* The latencies of the model: every 500 ms, and the neighbours of the
\* acceptable threshold.
Latencies == {500 * k : k \in 0..MaxLatencySteps} \cup {4999, 5001}

InitAdvanced ==
    /\ NoBatch
    /\ QueryIdle
    /\ LoadIdle
    /\ OthersIdle
    /\ weights \in {WeightsOrDefault(given) : given \in WeightArgs}
    /\ enabled \in [{"hallucination", "citation", "latency"} -> BOOLEAN]
    /\ latency_ms \in Latencies
    /\ a_pc = "called"
    /\ basic = NoScores
    /\ sub = NoSub
    /\ adv_result = NoResult_adv

\* Line 457: basic = self._get_basic_scores(...)
GetBasic ==
    /\ a_pc = "called"
    /\ \E reply \in BasicReplies : basic' = _get_basic_scores(reply)
    /\ a_pc' = "basic"
    /\ UNCHANGED <<pvars, cvars, lvars, ovars, weights, enabled, latency_ms, sub, adv_result>>

\* Lines 459-478: the detectors that were built run; the others leave their
\* defaults (100, 50, and 100 with is_slow False for the latency).
SubEvaluators ==
    /\ a_pc = "basic"
    /\ \E h \in IF enabled.hallucination THEN DetectorScores ELSE {100},
          c \in IF enabled.citation THEN DetectorScores ELSE {50} :
            LET scored == IF enabled.latency
                          THEN LatencyScorer_score(LatencyScorer, latency_ms)
                          ELSE [score |-> 100, is_slow |-> FALSE, desc |-> "Not evaluated"]
            IN  sub' = [hallucination_score    |-> h,
                        citation_quality_score |-> c,
                        latency_score          |-> scored.score,
                        is_slow                |-> scored.is_slow,
                        latency_desc           |-> scored.desc]
    /\ a_pc' = "scored"
    /\ UNCHANGED <<pvars, cvars, lvars, ovars, weights, enabled, latency_ms, basic, adv_result>>

\* Lines 480-518: the two overall scores and the adv_result; a KeyError of
\* self.weights[...] leaves evaluate.
Combine ==
    LET overall == AdvancedOverall(weights, Terms(basic, sub))
    IN  /\ a_pc = "scored"
        /\ IF overall.ok
           THEN /\ adv_result' = [accuracy_score   |-> basic.accuracy_score,
                              latency_score    |-> sub.latency_score,
                              basic_overall    |-> TrueDiv(basic.accuracy_score
                                                            + basic.relevance_score
                                                            + basic.completeness_score, 3),
                              advanced_overall |-> overall.v,
                              latency_ms       |-> latency_ms,
                              is_slow          |-> sub.is_slow]
                /\ a_pc' = "returned"
           ELSE /\ a_pc' = "raised"
                /\ UNCHANGED adv_result
        /\ UNCHANGED <<pvars, cvars, lvars, ovars, weights, enabled, latency_ms, basic, sub>>

NextAdvanced ==
    \/ GetBasic
    \/ SubEvaluators
    \/ Combine

SpecAdvanced == InitAdvanced /\ [][NextAdvanced]_vars

(***************************************************************************)
(* safe_json_parse (llm.py), one attempt after the other                   *)
(***************************************************************************)

\* The most closing characters a reply has lost at its end.
MaxCut == 3

\* What an LLM replies with: JSON objects flat and nested, with braces and
\* brackets inside their strings, and texts json.loads rejects.
Documents ==
    << Chars("{\"score\": 5}"),
       Chars("{\"score\": 4, \"reason\": \"ok\"}"),
       Chars("{\"a\": [1, 2]}"),
       Chars("{\"a\": {\"b\": 2}}"),
       Chars("{\"a\": [1, {\"b\": 2}]}"),
       Chars("{\"a\": {\"b\": [1]}}"),
       Chars("{\"reason\": \"use {\"}"),
       Chars("{\"reason\": \"see [1]\"}"),
       Chars("{\"reason\": \"a } b\"}"),
       Chars("{\"a\":\n 1}"),
       Chars("{\"r\": \"the \"x\" one\"}"),
       Chars("{\"a\": {\"b\": 1} \"c\": 2}"),
       Chars("not json"),
       Chars(""),
       Chars("[1, 2]") >>

RECURSIVE TrailingClosers(_)
\* How many closing braces and brackets text s ends with.
TrailingClosers(s) ==
    IF s # <<>> /\ s[Len(s)] \in {"}", "]"}
    THEN 1 + TrailingClosers(SubSeq(s, 1, Len(s) - 1))
    ELSE 0

\* The replies: a document whole, or cut short by some of the closing
\* characters it ends with.
Replies ==
    {r \in [doc : DOMAIN Documents, cut : 0..MaxCut] : r.cut <= TrailingClosers(Documents[r.doc])}

\* The argument raw of the call.
Raw(r) == SubSeq(Documents[r.doc], 1, Len(Documents[r.doc]) - r.cut)

InitParse ==
    /\ NoBatch
    /\ QueryIdle
    /\ LoadIdle
    /\ AdvIdle
    /\ AssessIdle
    /\ QuickIdle
    /\ ScorerIdle
    /\ completion \in Replies
    /\ working = <<>>
    /\ parse_pc = "called"
    /\ parsed = EmptyObj

\* Lines 9-13: an empty raw returns {}; else the control characters are
\* replaced.
Clean ==
    /\ parse_pc = "called"
    /\ IF Raw(completion) = <<>>
       THEN /\ parse_pc' = "returned"
            /\ parsed' = EmptyObj
            /\ UNCHANGED working
       ELSE /\ working' = CleanControl(Raw(completion))
            /\ parse_pc' = "cleaned"
            /\ UNCHANGED parsed
    /\ UNCHANGED <<pvars, cvars, lvars, avars, mvars, kvars, tvars, completion>>

\* Lines 15-19: the closing characters that the counts find missing are
\* appended.
Complete ==
    /\ parse_pc = "cleaned"
    /\ working' = CompleteTruncated(working)
    /\ parse_pc' = "completed"
    /\ UNCHANGED <<pvars, cvars, lvars, avars, mvars, kvars, tvars, completion, parsed>>

\* One attempt of safe_json_parse: json.loads(text) returns from the call, or
\* raises JSONDecodeError and the call goes on at otherwise.
Attempt(at, text, otherwise) ==
    /\ parse_pc = at
    /\ LET r == json_loads(text)
       IN  IF r.ok
           THEN parse_pc' = "returned" /\ parsed' = r.val
           ELSE parse_pc' = otherwise /\ UNCHANGED parsed
    /\ UNCHANGED <<pvars, cvars, lvars, avars, mvars, kvars, tvars, completion, working>>

\* Lines 21-24
DirectDecode == Attempt("completed", working, "fix_quotes")

\* Lines 59-63
FixQuotes == Attempt("fix_quotes", _fix_inner_quotes(working, 1, FALSE, FALSE), "repair")

\* Lines 66-69
RepairMissingCommas == Attempt("repair", RepairCommas(working), "failed")

\* Lines 70-72: every attempt failed; the preview is printed and {} returned.
GiveUp ==
    /\ parse_pc = "failed"
    /\ parse_pc' = "returned"
    /\ parsed' = EmptyObj
    /\ UNCHANGED <<pvars, cvars, lvars, avars, mvars, kvars, tvars, completion, working>>

NextParse ==
    \/ Clean
    \/ Complete
    \/ DirectDecode
    \/ FixQuotes
    \/ RepairMissingCommas
    \/ GiveUp

SpecParse == InitParse /\ [][NextParse]_vars

(***************************************************************************)
(* RAGAssessment.run_assessment and assess_single (assessment.py)          *)
(***************************************************************************)

\* The most QA pairs in the file, and the largest max_samples.
MaxPairs == 3

MaxSamples == 4

\* RAGEndpointClient.query as its caller sees it: the tuple returned for endpoint
\* s, or the exception that leaves query; no time passes in the call.
ClientQuery(s) ==
    IF Servers[s].fault # "none"
    THEN ExceptClauses(Exc(Servers[s].fault, "post failed"), 0)
    ELSE IF Servers[s].status \in StatusForcelist
    THEN ExceptClauses(Exc("RetryError", "too many error responses"), 0)
    ELSE IF 400 <= Servers[s].status /\ Servers[s].status < 600
    THEN ExceptClauses(Exc("HTTPError", "error status"), 0)
    ELSE Bind(AfterBody(BodyOf(Servers[s]), 0), LAMBDA r :
            IF r.ok THEN r ELSE ExceptClauses(r.err, 0))

\* The QA pairs of the file, each with the endpoint that answers its question
\* and with what the evaluator's LLM replies about it.
AssessFixture ==
    << [id |-> 1, question |-> "capital of France?", answer |-> "Paris", server |-> 14,
        llm |-> Content("{\"accuracy_score\": 90, \"relevance_score\": 80, \"completeness_score\": 70, \"reasoning\": \"good\"}")],
       [id |-> 2, question |-> "boiling point?", answer |-> "100 C", server |-> 1,
        llm |-> Content("{\"accuracy_score\": 10}")],
       [id |-> 3, question |-> "author?", answer |-> "Orwell", server |-> 20,
        llm |-> Content("{\"accuracy_score\": 20}")],
       [id |-> 4, question |-> "year?", answer |-> "1969", server |-> 23,
        llm |-> Content("{\"accuracy_score\": 95, \"reasoning\": \"right\"}")],
       [id |-> 5, question |-> "largest planet?", answer |-> "Jupiter", server |-> 24,
        llm |-> Content("{\"accuracy_score\": 150, \"relevance_score\": \"x\"}")],
       [id |-> 6, question |-> "symbol of gold?", answer |-> "Au", server |-> 5,
        llm |-> Content("{}")],
       [id |-> 7, question |-> "pi?", answer |-> "3.14159", server |-> 15,
        llm |-> ProviderRaises("Connection reset")] >>

\* The lists load_qa_pairs returns: up to MaxPairs pairs of the file.
PairLists ==
    UNION {{qs \in [1..n -> DOMAIN AssessFixture] : \A a, b \in 1..n : a < b => qs[a] < qs[b]}
           : n \in 0..MaxPairs}

\* max_samples: None, or an int.
SampleLimits ==
    {[none |-> TRUE, n |-> 0]} \cup {[none |-> FALSE, n |-> n] : n \in -1..MaxSamples}

\* A run that takes every pair whatever max_samples is.
Limit_all(pairs, limit) == pairs

\* Lines 437-438: "if max_samples: qa_pairs = qa_pairs[:max_samples]"
Limit(pairs, limit) ==
    IF limit.none \/ limit.n = 0 THEN pairs
    ELSE IF limit.n > 0 THEN SubSeq(pairs, 1, PyMin(limit.n, Len(pairs)))
    ELSE SubSeq(pairs, 1, PyMax(0, Len(pairs) + limit.n))

Scores(a, r, c, reasoning) ==
    [accuracy_score |-> a, relevance_score |-> r, completeness_score |-> c,
     reasoning |-> reasoning]

\* Lines 328-336: the except branch of evaluate.
EvaluationFailed(msg) == Scores(50, 50, 50, JStr("Evaluation error: " \o msg))

ScoreKeys == <<"accuracy_score", "relevance_score", "completeness_score">>

\* Lines 319-322 for one key: 50 when the key is missing, int(result[key])
\* clamped to 0..100.
ClampedScore(result, key) ==
    Bind(PyInt(LookUp(result.v, key, JInt(50))), LAMBDA n :
        IF n.ok THEN Returned(PyMax(0, PyMin(100, n.v))) ELSE n)

\* Lines 305-326: the try block of evaluate on the LLM's reply.
EvaluateTry(llm) ==
    IF llm.kind = "raise" THEN EvaluationFailed(llm.msg)
    ELSE Bind(json_loads(llm.content), LAMBDA decoded :
        IF ~decoded.ok THEN EvaluationFailed("Expecting value")
        ELSE IF decoded.val.t # "obj"
        THEN Bind(PyIn(ScoreKeys[1], decoded.val), LAMBDA has :
                EvaluationFailed(IF has.ok
                                 THEN "'" \o PyTypeName(decoded.val)
                                          \o "' object does not support item assignment"
                                 ELSE has.err))
        ELSE Bind([k \in DOMAIN ScoreKeys |-> ClampedScore(decoded.val, ScoreKeys[k])],
                  LAMBDA got :
                IF \E k \in DOMAIN got : ~got[k].ok
                THEN EvaluationFailed(got[CHOOSE k \in DOMAIN got :
                                            /\ ~got[k].ok
                                            /\ \A j \in 1..(k - 1) : got[j].ok].err)
                ELSE Scores(got[1].v, got[2].v, got[3].v,
                            LookUp(decoded.val.v, "reasoning",
                                   JStr("No reasoning provided")))))

\* LLMEvaluator.evaluate(question, expected_answer, target_response), with llm
\* what the LLM replies when it is called.
LLMEvaluator_evaluate(expected_answer, target_response, llm) ==
    IF IsBlank(Chars(target_response))
    THEN Scores(0, 0, 0, JStr("Target response is empty"))
    ELSE IF IsBlank(Chars(expected_answer))
    THEN Scores(50, 50, 50, JStr("No expected answer provided for comparison"))
    ELSE EvaluateTry(llm)

\* Line 387
ErrorField(raw_response) ==
    IF raw_response.t = "obj" THEN LookUp(raw_response.v, "error", JNull) ELSE JNull

\* An assess_single that only leaves out the evaluator for an error.
SkipsEvaluator_errorOnly(error, target_response) == PyTruthy(error)

\* Line 390: "if error or not target_response"
SkipsEvaluator(error, target_response) == PyTruthy(error) \/ target_response = ""

\* Lines 391-396
NotEvaluated(error) ==
    Scores(0, 0, 0, IF PyTruthy(error) THEN error ELSE JStr("Empty response"))

\* Lines 405-424: overall_score and the AssessmentResult.
AssessmentResult(qa, queried, scores) ==
    [qa_id                |-> qa.id,
     question             |-> qa.question,
     expected_answer      |-> qa.answer,
     target_response      |-> queried.answer,
     accuracy_score       |-> scores.accuracy_score,
     relevance_score      |-> scores.relevance_score,
     completeness_score   |-> scores.completeness_score,
     overall_score        |-> TrueDiv(scores.accuracy_score + scores.relevance_score
                                        + scores.completeness_score, 3),
     evaluation_reasoning |-> scores.reasoning,
     response_time_ms     |-> queried.ms,
     error                |-> ErrorField(queried.raw),
     raw_response         |-> queried.raw]

InitAssess ==
    /\ NoBatch
    /\ QueryIdle
    /\ LoadIdle
    /\ AdvIdle
    /\ ParseIdle
    /\ QuickIdle
    /\ ScorerIdle
    /\ qa_pairs \in PairLists
    /\ max_samples \in SampleLimits
    /\ m_pc = "called"
    /\ limited = <<>>
    /\ assessed = <<>>
    /\ qa_no = 1
    /\ target = NoTarget
    /\ eval_result = NoEval
    /\ journal = <<>>

\* The pair the loop is at.
CurrentQA == AssessFixture[limited[qa_no]]

\* Lines 435-443: the pairs are loaded and limited, results = [].
StartAssessment ==
    /\ m_pc = "called"
    /\ limited' = Limit(qa_pairs, max_samples)
    /\ m_pc' = "loop"
    /\ UNCHANGED <<pvars, cvars, lvars, avars, svars, kvars, tvars, qa_pairs, max_samples, assessed, qa_no,
                   target, eval_result, journal>>

\* Lines 445-446 and 384: the loop takes the next pair and assess_single
\* queries the endpoint; the tuple comes back, or the exception query let
\* through leaves assess_single and run_assessment.
QueryEndpoint ==
    /\ m_pc = "loop"
    /\ qa_no <= Len(limited)
    /\ journal' = Append(journal, <<"query", qa_no>>)
    /\ LET r == ClientQuery(CurrentQA.server)
       IN  IF r.ok
           THEN m_pc' = "queried" /\ target' = r.v
           ELSE m_pc' = "raised" /\ UNCHANGED target
    /\ UNCHANGED <<pvars, cvars, lvars, avars, svars, kvars, tvars, qa_pairs, max_samples, limited, assessed,
                   qa_no, eval_result>>

\* Lines 387-403: the scores without the evaluator, or the evaluator's.
Evaluate ==
    /\ m_pc = "queried"
    /\ IF SkipsEvaluator(ErrorField(target.raw), target.answer)
       THEN /\ eval_result' = NotEvaluated(ErrorField(target.raw))
            /\ UNCHANGED journal
       ELSE /\ eval_result' = LLMEvaluator_evaluate(CurrentQA.answer, target.answer,
                                                    CurrentQA.llm)
            /\ journal' = Append(journal, <<"evaluate", qa_no>>)
    /\ m_pc' = "evaluated"
    /\ UNCHANGED <<pvars, cvars, lvars, avars, svars, kvars, tvars, qa_pairs, max_samples, limited, assessed,
                   qa_no, target>>

\* Lines 405-424 and 446-447: assess_single returns its AssessmentResult and
\* the loop appends it.
AppendResult ==
    /\ m_pc = "evaluated"
    /\ assessed' = Append(assessed, AssessmentResult(CurrentQA, target, eval_result))
    /\ journal' = Append(journal, <<"append", qa_no>>)
    /\ m_pc' = "appended"
    /\ UNCHANGED <<pvars, cvars, lvars, avars, svars, kvars, tvars, qa_pairs, max_samples, limited, qa_no,
                   target, eval_result>>

\* Line 448: time.sleep(self.rate_limit_delay), then the next turn of the loop.
RateLimitDelay ==
    /\ m_pc = "appended"
    /\ journal' = Append(journal, <<"sleep", qa_no>>)
    /\ qa_no' = qa_no + 1
    /\ m_pc' = "loop"
    /\ UNCHANGED <<pvars, cvars, lvars, avars, svars, kvars, tvars, qa_pairs, max_samples, limited, assessed,
                   target, eval_result>>

\* Line 450: the list is exhausted; results is returned.
ReturnResults ==
    /\ m_pc = "loop"
    /\ qa_no > Len(limited)
    /\ m_pc' = "returned"
    /\ UNCHANGED <<pvars, cvars, lvars, avars, svars, kvars, tvars, qa_pairs, max_samples, limited, assessed,
                   qa_no, target, eval_result, journal>>

NextAssess ==
    \/ StartAssessment
    \/ QueryEndpoint
    \/ Evaluate
    \/ AppendResult
    \/ RateLimitDelay
    \/ ReturnResults

SpecAssess == InitAssess /\ [][NextAssess]_vars

(***************************************************************************)
(* _quick_test_async (quick_test.py): process_chunk and the gather         *)
(***************************************************************************)

\* The most chunks sampled, and the largest concurrency.
MaxChunks == 2

MaxQuickConcurrency == 2

\* threshold: float = 0.7, in hundredths.
PassThreshold == 70

\* The chunks: what agenerate_qa_for_chunk makes of each ("raise": it raises,
\* "empty": no QA pair, "noanswer": a pair with an empty answer, "ok": the
\* pair of question q of Fixture), what the endpoint function does with the
\* question, and, by q, what the judge replies.
ChunkFixture ==
    << [path |-> "a.md", gen |-> "ok", q |-> 1,
        endpoint |-> [kind |-> "value", v |-> JStr("Paris is the capital of France.")]],
       [path |-> "b.md", gen |-> "ok", q |-> 7,
        endpoint |-> [kind |-> "value", v |-> JStr("Ag or Au")]],
       [path |-> "c.md", gen |-> "raise", q |-> 1,
        endpoint |-> [kind |-> "value", v |-> JNull]],
       [path |-> "d.md", gen |-> "empty", q |-> 1,
        endpoint |-> [kind |-> "value", v |-> JNull]],
       [path |-> "e.md", gen |-> "ok", q |-> 8,
        endpoint |-> [kind |-> "value", v |-> JInt(3)]],
       [path |-> "f.md", gen |-> "ok", q |-> 3,
        endpoint |-> [kind |-> "raise", v |-> JStr("boom")]],
       [path |-> "g.md", gen |-> "noanswer", q |-> 2,
        endpoint |-> [kind |-> "value", v |-> JNull]],
       [path |-> "h.md", gen |-> "ok", q |-> 5,
        endpoint |-> [kind |-> "value", v |-> JNull]] >>

\* random.sample(all_chunks, min(n, len(all_chunks))): up to MaxChunks chunks.
Samples ==
    UNION {{cs \in [1..n -> DOMAIN ChunkFixture] : \A a, b \in 1..n : a < b => cs[a] < cs[b]}
           : n \in 0..MaxChunks}

Chunks == DOMAIN sample_chunks

Chunk(i) == ChunkFixture[sample_chunks[i]]

\* Lines 443-452: rag_answer of a function endpoint.
FunctionAnswer(endpoint) ==
    IF endpoint.kind = "raise" THEN "[ERROR: " \o endpoint.v.v \o "]"
    ELSE IF PyTruthy(endpoint.v) THEN PyStr(endpoint.v) ELSE ""

\* Lines 490-493: the except branch of the judge call.
QuickJudgeFailed(msg) ==
    [score |-> 1, reason |-> JStr("Judge error: " \o msg), data |-> EmptyObj]

\* Lines 483-493: the judge call, the parse and score and reason, with the
\* clamp of line 488 inside the try.
QuickJudgeTry(reply) ==
    IF reply.kind = "raise" THEN QuickJudgeFailed(reply.msg)
    ELSE Bind(safe_json_parse(reply.content), LAMBDA data :
         Bind(DictGet(data, "score", JInt(1)), LAMBDA got :
         Bind(IF got.ok THEN PyInt(got.v) ELSE got, LAMBDA score :
            IF ~score.ok THEN QuickJudgeFailed(score.err)
            ELSE [score  |-> PyMax(1, PyMin(5, score.v)),
                  reason |-> LookUp(data.v, "reason", JStr("No reason provided")),
                  data   |-> data])))

\* The judge's reply is fixed per question: what the try makes of each.
QuickTried == [q \in Questions |-> QuickJudgeTry(Fixture[q].judge)]

\* Lines 508-514: every metric gets its clamped value, or None (0 here) when
\* the judge gave none.
QuickMetrics(ints) ==
    [m \in {_DETAILED_METRICS[k] : k \in DOMAIN _DETAILED_METRICS} |->
        LET k == CHOOSE j \in DOMAIN _DETAILED_METRICS : _DETAILED_METRICS[j] = m
        IN  IF k \in DOMAIN ints THEN PyMax(1, PyMin(5, ints[k].v)) ELSE 0]

\* Lines 495-514: the result dict of a chunk, or the exception int(val) of
\* line 512 raises (caught at line 529).
QuickDetail(chunk, answer, try, with_metrics) ==
    Bind(IF with_metrics THEN MetricInts(try.data) ELSE <<>>, LAMBDA ints :
        IF \E k \in DOMAIN ints : ~ints[k].ok
        THEN Raised("invalid literal for int()")
        ELSE Returned([question      |-> Fixture[chunk.q].question,
                       golden_answer |-> Fixture[chunk.q].answer,
                       rag_answer    |-> answer,
                       score         |-> try.score,
                       reason        |-> try.reason,
                       is_correct    |-> try.score >= CorrectScore,
                       source        |-> chunk.path,
                       metrics       |-> IF with_metrics THEN QuickMetrics(ints) ELSE <<>>]))

\* Lines 518-524
Correction(detail) ==
    [question         |-> detail.question,
     incorrect_answer |-> detail.rag_answer,
     correct_answer   |-> detail.golden_answer,
     source           |-> detail.source]

\* A process_chunk that tracks a correction for every result.
TrackCorrection_every(tracked, detail) == Append(tracked, Correction(detail))

\* Lines 516-525: "if not is_correct: corrections.append(...)"
TrackCorrection(tracked, detail) ==
    IF ~detail.is_correct THEN Append(tracked, Correction(detail)) ELSE tracked

\* What a task returns: None, or its result dict.
None == [none |-> TRUE, detail |-> [score |-> 0]]

Some(detail) == [none |-> FALSE, detail |-> detail]

InitQuick ==
    /\ NoBatch
    /\ QueryIdle
    /\ LoadIdle
    /\ AdvIdle
    /\ ParseIdle
    /\ AssessIdle
    /\ ScorerIdle
    /\ sample_chunks \in Samples
    /\ quick_concurrency \in 1..MaxQuickConcurrency
    /\ quick_detailed \in BOOLEAN
    /\ chunk_pc = [i \in Chunks |-> "pending"]
    /\ quick_permits = quick_concurrency
    /\ chunk_answer = [i \in Chunks |-> ""]
    /\ raw_results = [i \in Chunks |-> None]
    /\ corrections = <<>>
    /\ quick_pc = "running"
    /\ quick_result = NoQuickResult

\* Line 428: the task enters "async with semaphore" and asks for a QA pair.
EnterChunk(i) ==
    /\ quick_pc = "running"
    /\ chunk_pc[i] = "pending"
    /\ quick_permits > 0
    /\ quick_permits' = quick_permits - 1
    /\ chunk_pc' = [chunk_pc EXCEPT ![i] = "generating"]
    /\ UNCHANGED <<pvars, cvars, lvars, avars, svars, mvars, tvars, sample_chunks, quick_concurrency,
                   quick_detailed, chunk_answer, raw_results, corrections, quick_pc, quick_result>>

\* Lines 430-442 and 529-532: agenerate_qa_for_chunk returns or raises; with
\* no pair, or a pair without question or answer, the task returns None and
\* the permit is released.
GenerateReturn(i) ==
    /\ quick_pc = "running"
    /\ chunk_pc[i] = "generating"
    /\ IF Chunk(i).gen = "ok"
       THEN /\ chunk_pc' = [chunk_pc EXCEPT ![i] = "querying"]
            /\ UNCHANGED quick_permits
       ELSE /\ chunk_pc' = [chunk_pc EXCEPT ![i] = "done"]
            /\ quick_permits' = quick_permits + 1
    /\ UNCHANGED <<pvars, cvars, lvars, avars, svars, mvars, tvars, sample_chunks, quick_concurrency,
                   quick_detailed, chunk_answer, raw_results, corrections, quick_pc, quick_result>>

\* Lines 444-453: the endpoint function returns or raises.
EndpointReturn(i) ==
    /\ quick_pc = "running"
    /\ chunk_pc[i] = "querying"
    /\ chunk_answer' = [chunk_answer EXCEPT ![i] = FunctionAnswer(Chunk(i).endpoint)]
    /\ chunk_pc' = [chunk_pc EXCEPT ![i] = "judging"]
    /\ UNCHANGED <<pvars, cvars, lvars, avars, svars, mvars, tvars, sample_chunks, quick_concurrency,
                   quick_detailed, quick_permits, raw_results, corrections, quick_pc, quick_result>>

\* Lines 483-532: the judge replies; the task builds its result, tracks the
\* correction and returns the result, or returns None after the exception of
\* line 512; the permit is released.
ChunkJudged(i) ==
    LET r == QuickDetail(Chunk(i), chunk_answer[i], QuickTried[Chunk(i).q], quick_detailed)
    IN  /\ quick_pc = "running"
        /\ chunk_pc[i] = "judging"
        /\ chunk_pc' = [chunk_pc EXCEPT ![i] = "done"]
        /\ quick_permits' = quick_permits + 1
        /\ IF r.ok
           THEN /\ raw_results' = [raw_results EXCEPT ![i] = Some(r.v)]
                /\ corrections' = TrackCorrection(corrections, r.v)
           ELSE UNCHANGED <<raw_results, corrections>>
        /\ UNCHANGED <<pvars, cvars, lvars, avars, svars, mvars, tvars, sample_chunks,
                       quick_concurrency, quick_detailed, chunk_answer, quick_pc, quick_result>>

\* Line 546: results = [r for r in raw_results if r is not None]
Details ==
    LET kept == SelectSeq([i \in Chunks |-> i], LAMBDA i : ~raw_results[i].none)
    IN  [k \in DOMAIN kept |-> raw_results[kept[k]].detail]

\* Lines 548-578: the QuickTestResult of the results that are left.
QuickTestResult(results, tracked) ==
    IF results = <<>>
    THEN [total |-> 0, correct |-> 0, accuracy |-> ZeroFloat, avg_score |-> ZeroFloat,
          passed |-> FALSE, details |-> <<>>, corrections |-> <<>>]
    ELSE [total       |-> Len(results),
          correct     |-> CountCorrect(results),
          accuracy    |-> TrueDiv(CountCorrect(results), Len(results)),
          avg_score   |-> TrueDiv(SumScores(results), Len(results)),
          passed      |-> CountCorrect(results) * 100 >= PassThreshold * Len(results),
          details     |-> results,
          corrections |-> tracked]

\* Lines 537-578: every task has returned; gather hands the results over in
\* the order of its arguments and _quick_test_async returns.
QuickGather ==
    /\ quick_pc = "running"
    /\ \A i \in Chunks : chunk_pc[i] = "done"
    /\ quick_result' = QuickTestResult(Details, corrections)
    /\ quick_pc' = "returned"
    /\ UNCHANGED <<pvars, cvars, lvars, avars, svars, mvars, tvars, sample_chunks, quick_concurrency,
                   quick_detailed, chunk_pc, quick_permits, chunk_answer, raw_results,
                   corrections>>

NextQuick ==
    \/ \E i \in Chunks : EnterChunk(i)
    \/ \E i \in Chunks : GenerateReturn(i)
    \/ \E i \in Chunks : EndpointReturn(i)
    \/ \E i \in Chunks : ChunkJudged(i)
    \/ QuickGather

SpecQuick == InitQuick /\ [][NextQuick]_vars

(***************************************************************************)
(* LatencyScorer.score under any thresholds (advanced_evaluator.py)        *)
(***************************************************************************)

\* The most calls of score on one scorer.
MaxScoreCalls == 2

\* The values a threshold is set to.
ThresholdValues == {0, 500, 2000, 5000}

\* LatencyScorer(excellent_threshold_ms, good_threshold_ms,
\* acceptable_threshold_ms): in order or not, distinct or not.
Scorers == [excellent : ThresholdValues, good : ThresholdValues, acceptable : ThresholdValues]

\* The latencies asked about: at, just past and between the thresholds, and
\* far past the last.
AskedLatencies == {0, 250, 500, 501, 1250, 2000, 2001, 3500, 5000, 5001, 8000, 11000, 12000}

\* Lines 307-319: the divisor of the branch that score takes for ms.
Divisor(self, ms) ==
    IF ms <= self.excellent THEN 1
    ELSE IF ms <= self.good THEN self.good - self.excellent
    ELSE IF ms <= self.acceptable THEN self.acceptable - self.good
    ELSE 1000

InitLatency ==
    /\ NoBatch
    /\ QueryIdle
    /\ LoadIdle
    /\ AdvIdle
    /\ ParseIdle
    /\ AssessIdle
    /\ QuickIdle
    /\ scorer \in Scorers
    /\ asked = 0
    /\ t_pc = "ready"
    /\ score_calls = <<>>

\* score(latency_ms) is called.
CallScore ==
    /\ t_pc = "ready"
    /\ Len(score_calls) < MaxScoreCalls
    /\ asked' \in AskedLatencies
    /\ t_pc' = "scoring"
    /\ UNCHANGED <<pvars, cvars, lvars, avars, svars, mvars, kvars, scorer, score_calls>>

\* Lines 307-320: score returns its tuple, or the division of its branch
\* raises ZeroDivisionError.
ScoreReturns ==
    /\ t_pc = "scoring"
    /\ IF Divisor(scorer, asked) = 0
       THEN /\ t_pc' = "raised"
            /\ UNCHANGED score_calls
       ELSE /\ t_pc' = "ready"
            /\ score_calls' = Append(score_calls,
                    [latency_ms |-> asked, tuple |-> LatencyScorer_score(scorer, asked)])
    /\ UNCHANGED <<pvars, cvars, lvars, avars, svars, mvars, kvars, scorer, asked>>

NextLatency ==
    \/ CallScore
    \/ ScoreReturns

SpecLatency == InitLatency /\ [][NextLatency]_vars
(***************************************************************************)
(* Properties                                                              *)
(***************************************************************************)

\* The items whose task has returned its record, and the record.
Resolved == {i \in Items : pc[i] = "resolved"}

Record(i) == task_result[i].v

\* Whether string s starts with string p.
HasPrefix(s, p) == Len(s) >= Len(p) /\ SubSeq(s, 1, Len(p)) = p

\* The endpoint queries and judge calls in flight.
InFlight == Cardinality({i \in Items : pc[i] \in {"querying", "judging"}})

\* C1 (as stated): whatever the endpoint and the judge do, in basic and in
\* detailed mode, no task's failure reaches the caller of evaluate_rag, and
\* the summary returned holds one record per QA pair, total = N.
C1_BatchYieldsNRecords ==
    /\ batch # "raised"
    /\ batch = "returned" =>
            /\ summary.total = Len(golden_qas)
            /\ Len(summary.results) = Len(golden_qas)

\* The scores a provider may give, for the clamp taken alone.
GivenScores == -3..9

\* C2: every record of _judge_single has a score in 1..5: a given score above
\* 5 becomes 5, one below 1 becomes 1, one in 1..5 stays, and a missing or
\* non-numeric one still gives a score in 1..5.
C2_ScoreInRange ==
    /\ \A n \in GivenScores : ClampScore(n) \in 1..5
    /\ \A i \in Resolved :
        LET given == Tried[golden_qas[i]].score
        IN  /\ Record(i).score \in 1..5
            /\ given > 5 => Record(i).score = 5
            /\ given < 1 => Record(i).score = 1
            /\ given \in 1..5 => Record(i).score = given

\* A record whose provider gave the score 7, stored as 5.
C2_Witness ==
    \E i \in Resolved : Tried[golden_qas[i]].score = 7 /\ Record(i).score = 5

\* The questions whose judging fails: the provider raises, or none of the
\* decodings safe_json_parse attempts succeeds on its reply.
JudgingFails ==
    {q \in Questions :
        \/ Fixture[q].judge.kind = "raise"
        \/ /\ Fixture[q].judge.content # <<>>
           /\ LET cleaned == CompleteTruncated(CleanControl(Fixture[q].judge.content))
              IN  /\ ~json_loads(cleaned).ok
                  /\ ~json_loads(_fix_inner_quotes(cleaned, 1, FALSE, FALSE)).ok
                  /\ ~json_loads(RepairCommas(cleaned)).ok}

\* C3 (as stated): when judging an item fails, its record has score 1,
\* is_correct false and a reason that starts with "Evaluation error: ".
C3_FailureNamesCause ==
    \A i \in Resolved :
        golden_qas[i] \in JudgingFails =>
            /\ Record(i).score = 1
            /\ ~Record(i).is_correct
            /\ Record(i).reason.t = "str"
            /\ HasPrefix(Record(i).reason.v, "Evaluation error: ")

\* C4 (as stated): is_correct of every record is score >= correct_threshold,
\* the threshold passed to evaluate_rag, and the summary counts the records
\* whose score meets it.
C4_ThresholdDecides ==
    /\ \A i \in Resolved : Record(i).is_correct = (Record(i).score >= correct_threshold)
    /\ batch = "returned" =>
            summary.correct = Cardinality({k \in DOMAIN summary.results :
                                            summary.results[k].score >= correct_threshold})

RECURSIVE ScoreSum(_, _)
\* The sum of the scores of the first k records.
ScoreSum(records, k) ==
    IF k = 0 THEN 0 ELSE records[k].score + ScoreSum(records, k - 1)

\* C5: the summary evaluate_rag returns has total = the number of records,
\* correct = the number of records with is_correct, correct + incorrect =
\* total, accuracy = correct / total within [0, 1], avg_score = the mean of
\* the scores; with no record, accuracy and avg_score are 0 and nothing is
\* divided by zero.
C5_SummaryInvariants ==
    batch = "returned" =>
        LET n == Len(summary.results)
            c == Cardinality({k \in 1..n : summary.results[k].is_correct})
        IN  /\ summary.total = n
            /\ summary.correct = c
            /\ summary.correct + summary.incorrect = summary.total
            /\ summary.accuracy.den > 0
            /\ summary.avg_score.den > 0
            /\ summary.accuracy.num * n = c * summary.accuracy.den
            /\ 0 <= summary.accuracy.num
            /\ summary.accuracy.num <= summary.accuracy.den
            /\ summary.avg_score.num * n = ScoreSum(summary.results, n) * summary.avg_score.den
            /\ n = 0 => summary.accuracy.num = 0 /\ summary.avg_score.num = 0

\* A summary of several records, some correct and some not.
C5_Witness ==
    /\ batch = "returned"
    /\ summary.total >= 2
    /\ 0 < summary.correct
    /\ summary.correct < summary.total

\* C6: the endpoint queries and judge calls in flight are at most concurrency
\* in every state, and each of them holds a permit of the one semaphore.
C6_InFlightAtMostK ==
    /\ InFlight <= concurrency
    /\ permits = concurrency - InFlight

\* A query and a judge call in flight together, with no permit left.
C6_Witness ==
    /\ \E i, j \in Items : pc[i] = "querying" /\ pc[j] = "judging"
    /\ InFlight = concurrency

ExpectedCorrect ==
    Cardinality({i \in Items : ClampScore(Tried[golden_qas[i]].score) >= CorrectScore})

\* C8: with replies that are fixed per question, total, correct and accuracy
\* of the summary are functions of the QA list alone: every interleaving of
\* the tasks, hence every run, gives the same three values.
C8_Deterministic ==
    batch = "returned" =>
        /\ summary.total = Len(golden_qas)
        /\ summary.correct = ExpectedCorrect
        /\ summary.accuracy =
                IF Len(golden_qas) > 0 THEN [num |-> ExpectedCorrect, den |-> Len(golden_qas)]
                ELSE [num |-> 0, den |-> 1]

\* A summary returned after the items resolved in another order than the
\* input's, with a correct and an incorrect record.
C8_Witness ==
    /\ batch = "returned"
    /\ Len(done_order) >= 2
    /\ done_order[1] > done_order[2]
    /\ summary.correct = 1

\* C9 (as stated): when a batch is cancelled while items are in progress, the
\* records of the items already resolved are in what the caller of the batch
\* run holds.
C9_ResolvedStayAvailable ==
    (batch = "cancelled" /\ Resolved # {} /\ \E i \in Items : pc[i] = "cancelled") =>
        /\ summary.total >= 0
        /\ \A i \in Resolved :
                \E k \in DOMAIN summary.results : summary.results[k].id = i

\* The error text query owes each endpoint of Servers by the kind of its
\* failure: the whole text for a timeout and an empty body, the start of it
\* for the others, "" where the endpoint's reply is no failure of these kinds.
OwedError(s) ==
    LET text == Flatten(Servers[s].chunks)
    IN  CASE Servers[s].fault \in {"ConnectTimeout", "ReadTimeout"} -> "Request timeout"
          [] Servers[s].fault = "ConnectionError" -> "HTTP error: "
          [] Servers[s].fault = "none" /\ Servers[s].status >= 400 -> "HTTP error: "
          [] Servers[s].fault = "none" /\ Servers[s].status < 400 /\ IsBlank(text) ->
                "Empty response body"
          [] Servers[s].fault = "none" /\ Servers[s].status < 400 /\ ~IsBlank(text)
                /\ ~json_loads(text).ok -> "JSON parse error: "
          [] Servers[s].fault = "none" /\ Servers[s].status < 400 /\ ~IsBlank(text)
                /\ json_loads(text).ok /\ json_loads(text).val.t # "obj" ->
                "Unexpected error: "
          [] OTHER -> ""

Owed == [s \in DOMAIN Servers |-> OwedError(s)]

\* The error field of a tuple query returned, "" when its payload has none.
ErrorOf(result) ==
    IF result.raw.t = "obj" /\ HasKey(result.raw, "error")
        /\ LookUp(result.raw.v, "error", JNull).t = "str"
    THEN LookUp(result.raw.v, "error", JNull).v
    ELSE ""

Probes(obj) ==
    LET data == LookUp(obj.v, "data", JNull)
        choices == LookUp(obj.v, "choices", JNull)
        first == IF choices.t = "arr" /\ choices.v # <<>> THEN choices.v[1] ELSE JNull
        message == IF first.t = "obj" THEN LookUp(first.v, "message", JNull) ELSE JNull
    IN  Fields(obj, TopFields)
          \o (IF data.t = "obj" THEN Fields(data, TopFields) ELSE <<>>)
          \o << IF message.t = "obj" THEN LookUp(message.v, "content", JNull) ELSE JNull,
                LookUp(obj.v, "output_text", JNull) >>

\* The first candidate that is a string with more than whitespace, or "".
FirstNonEmpty(candidates) ==
    IF \E k \in DOMAIN candidates : IsAnswer(candidates[k])
    THEN candidates[CHOOSE k \in DOMAIN candidates :
                        /\ IsAnswer(candidates[k])
                        /\ \A j \in 1..(k - 1) : ~IsAnswer(candidates[j])].v
    ELSE ""

\* The answer each endpoint of Servers is owed when its body is a JSON object.
Promised ==
    [s \in DOMAIN Servers |->
        LET decoded == json_loads(BodyOf(Servers[s]))
        IN  IF decoded.ok /\ decoded.val.t = "obj" THEN FirstNonEmpty(Probes(decoded.val))
            ELSE ""]

\* C11 (as stated): for a reply that is a JSON object, the answer query returns
\* is the first non-empty string among the candidates in the priority order
\* answer, response, result, msg, data.answer, data.response, data.result,
\* data.msg, choices[0].message.content, output_text; an earlier candidate
\* that is no string, empty or whitespace does not stop the later ones.
C11_FirstNonEmptyWins ==
    (q_pc = "returned" /\ Servers[server].fault = "none" /\ Servers[server].status < 400) =>
        returned[1].answer = Promised[server]

\* The questions whose endpoint query raises: an error status or a timeout of
\* the fixture's endpoint.
QueryFails == {q \in Questions : ~RAGClient_query(Fixture[q].endpoint).ok}

\* The items whose query has ended.
Queried == {i \in Items : pc[i] \in {"queried", "judging", "resolved", "raised"}}

\* C12 (as stated): the record of an item whose endpoint query failed has the
\* empty text as its rag_answer.
C12_FailedQueryEmptyAnswer ==
    \A i \in Resolved : golden_qas[i] \in QueryFails => Record(i).rag_answer = ""

\* C13 (as stated): for an item whose endpoint query failed or gave the empty
\* answer no call to the judge provider is made, its record has is_correct
\* false, and the batch returns a summary with total = N.
C13_EmptyAnswerShortCircuit ==
    \A i \in Queried :
        (golden_qas[i] \in QueryFails \/ rag_answer[i] = "") =>
            /\ pc[i] # "judging"
            /\ pc[i] = "resolved" => ~Record(i).is_correct
            /\ batch = "returned" => summary.total = Len(golden_qas)

\* What safe_json_parse makes of the content of each question's judge reply
\* ({} stands in where the provider raises and nothing is parsed).
Parsed ==
    [q \in Questions |->
        IF Fixture[q].judge.kind = "content" THEN safe_json_parse(Fixture[q].judge.content)
        ELSE EmptyObj]

\* C14 (as stated): whatever text the judge provider replied with, valid JSON
\* whose top-level value is an array, a number, a string or null included,
\* safe_json_parse has given the task a mapping.
C14_ParseGivesMapping ==
    \A i \in Items :
        (pc[i] \in {"resolved", "raised"} /\ Fixture[golden_qas[i]].judge.kind = "content") =>
            Parsed[golden_qas[i]].t = "obj"

\* The fields a line must have to be a QA pair for each loader.
NeededFields(name) ==
    IF name = "load_golden_qas" THEN {"question", "answer"} ELSE {"id", "question", "answer"}

\* A well-formed line: a JSON object with the loader's needed fields.
WellFormed(name, k) ==
    /\ DecodedLine[k].ok
    /\ DecodedLine[k].val.t = "obj"
    /\ \A field \in NeededFields(name) : HasKey(DecodedLine[k].val, field)

\* The well-formed lines among the first n lines of the file, in file order.
WellFormedLines(n) ==
    SelectSeq(SubSeq(f, 1, n), LAMBDA k : WellFormed(loader, k))

\* C15 (as stated): no line makes a loader raise (a line that is no JSON, or
\* JSON that is no object with the needed fields, is dropped), and the pairs
\* loaded are those of the well-formed lines read so far, in file order.
C15_MalformedLinesSkipped ==
    /\ load_exc # "TypeError"
    /\ load_pc \in {"reading", "returned"} =>
            /\ Len(qas) = Len(WellFormedLines(line_no - 1))
            /\ \A j \in DOMAIN qas :
                    /\ qas[j].t = "obj"
                    /\ LookUp(qas[j].v, "question", JNull) =
                            LookUp(DecodedLine[WellFormedLines(line_no - 1)[j]].val.v,
                                   "question", JNull)

\* C16 (as stated): the document written out holds the statistics of the
\* summary and lists, as incorrect_pairs, exactly the records whose score is
\* below the caller's correct_threshold: a record is listed iff its
\* is_correct is false, and incorrect_pairs is as long as summary.incorrect.
C16_DocumentListsBelowThreshold ==
    document # NoDocument =>
        /\ document.summary.total = summary.total
        /\ document.summary.correct = summary.correct
        /\ document.summary.incorrect = summary.incorrect
        /\ Len(document.incorrect_pairs) = summary.incorrect
        /\ \A k \in DOMAIN summary.results :
                LET r == summary.results[k]
                    listed == \E j \in DOMAIN document.incorrect_pairs :
                                    document.incorrect_pairs[j].id = r.id
                IN  /\ listed <=> ~r.is_correct
                    /\ listed <=> r.score < correct_threshold

RECURSIVE SuppliedSum(_, _, _)
\* The weighted sum over the components the caller gave a weight for, in
\* hundredths.
SuppliedSum(w, terms, k) ==
    IF k > Len(terms) THEN 0
    ELSE (IF terms[k][1] \in DOMAIN w THEN w[terms[k][1]] * terms[k][2] ELSE 0)
            + SuppliedSum(w, terms, k + 1)

\* C18 (as stated): whatever components the caller's weights name, evaluate
\* returns, and advanced_overall is the plain sum of weight * score over them,
\* not normalised: weights {accuracy: 0.5, latency: 0.5} with accuracy 80 and
\* latency score 60 give exactly 70.
C18_PartialWeightsComposite ==
    /\ a_pc # "raised"
    /\ a_pc = "returned" =>
            /\ adv_result.advanced_overall.num = SuppliedSum(weights, Terms(basic, sub), 1)
            /\ adv_result.advanced_overall.den = 100
            /\ (/\ \A k \in DOMAIN weights :
                        weights[k] = IF k \in {"accuracy", "latency"} THEN 50 ELSE 0
                /\ basic.accuracy_score = 80
                /\ sub.latency_score = 60) =>
                    adv_result.advanced_overall.num = 70 * adv_result.advanced_overall.den

\* The items whose query has started and that are not resolved yet.
Started == {i \in Items : pc[i] \in {"querying", "queried", "judging"}}

\* C19 (as stated): the items between the start of their endpoint query and
\* their resolution, those waiting between the two calls included, are at most
\* concurrency in every state.
C19_StartedAtMostK == Cardinality(Started) <= concurrency

\* C19 (amended): the items whose endpoint query or judge call is running,
\* each holding a permit, are at most concurrency; the items between the two
\* calls hold no permit, and only they take the started items beyond it.
C19_CallsAtMostK ==
    /\ Cardinality({i \in Started : pc[i] # "queried"}) <= concurrency
    /\ Cardinality({i \in Started : pc[i] # "queried"}) + permits = concurrency
    /\ Cardinality(Started) > concurrency => \E i \in Started : pc[i] = "queried"

\* More items started and unresolved than concurrency: one waits between
\* its two calls while all permits are in use.
C19_Witness ==
    /\ Cardinality(Started) > concurrency
    /\ permits = 0

\* The steps of one item: the query starts, the query ends, the judge call
\* starts, the judge call ends in the record.  Between the end of its query
\* and the start of its judge call an item counts as in its judging stage.
ItemSteps ==
    { <<"pending", "querying">>, <<"querying", "queried">>, <<"queried", "judging">>,
      <<"judging", "resolved">> }

\* C20 (as stated): an item only moves pending -> querying -> judging ->
\* resolved, one step at a time and never back, and resolved is where every
\* item ends, also after a failed query or a failed judge call: no item ends
\* in a failure state of its own (an item cancelled with the batch aside).
C20_OnlyForwardToResolved ==
    [][\A i \in Items :
            pc'[i] # pc[i] => (<<pc[i], pc'[i]>> \in ItemSteps \/ pc'[i] = "cancelled")]_vars

\* C21 (as stated): when every query and every judge call comes back and the
\* tasks are scheduled fairly, every item is resolved at last and evaluate_rag
\* returns its summary, for every N and concurrency, in basic and in detailed
\* mode: no order of taking the permits blocks the batch.
C21_BatchReturns ==
    <>(batch = "returned" /\ \A i \in Items : pc[i] = "resolved")

\* The value the judge's output gives question q for dimension m (null when
\* the output is no object or has no such member).
GivenDimension(q, m) ==
    IF Parsed[q].t = "obj" THEN LookUp(Parsed[q].v, m, JNull) ELSE JNull

\* C22 (as stated): every judged item has a record; in detailed mode each of
\* the five dimensions the judge's output holds is stored in it with a value in
\* 1..5 (an integer above 5 as 5, one below 1 as 1), whatever the other
\* dimensions are, and each dimension the output lacks is not set; when the
\* judge call failed, and in basic mode, no dimension is set.
C22_DimensionsIndependent ==
    \A i \in Items :
        pc[i] \in {"resolved", "raised"} =>
            /\ pc[i] = "resolved"
            /\ IF ~detailed \/ Fixture[golden_qas[i]].judge.kind = "raise"
               THEN DOMAIN Record(i).metrics = {}
               ELSE \A k \in DOMAIN _DETAILED_METRICS :
                        LET m     == _DETAILED_METRICS[k]
                            given == GivenDimension(golden_qas[i], m)
                        IN  IF given.t = "null"
                            THEN m \notin DOMAIN Record(i).metrics
                            ELSE /\ m \in DOMAIN Record(i).metrics
                                 /\ Record(i).metrics[m] \in 1..5
                                 /\ given.t = "int" =>
                                        Record(i).metrics[m] =
                                            IF given.v > 5 THEN 5
                                            ELSE IF given.v < 1 THEN 1 ELSE given.v

\* The items that are between two calls or have ended: none of them is inside
\* an "async with semaphore" block.
OutsideCalls == {i \in Items : pc[i] \in {"pending", "queried", "resolved", "raised", "cancelled"}}

Decoded == [d \in DOMAIN Documents |-> json_loads(Documents[d])]

\* The documents that are valid JSON objects.
ValidObjects == {d \in DOMAIN Documents : Decoded[d].ok /\ Decoded[d].val.t = "obj"}

RECURSIVE SameValue(_, _)
\* a == b of two decoded values.
SameValue(a, b) ==
    /\ a.t = b.t
    /\ IF a.t \in {"obj", "arr"}
       THEN /\ Len(a.v) = Len(b.v)
            /\ \A k \in DOMAIN a.v :
                    IF a.t = "arr" THEN SameValue(a.v[k], b.v[k])
                    ELSE a.v[k][1] = b.v[k][1] /\ SameValue(a.v[k][2], b.v[k][2])
       ELSE a.v = b.v

\* C23 (as stated): called with a text that is a valid JSON object, one whose
\* strings hold braces or brackets included, safe_json_parse returns what
\* json.loads makes of that text.
C23_ValidObjectDecodedDirectly ==
    (parse_pc = "returned" /\ completion.cut = 0 /\ completion.doc \in ValidObjects) =>
        SameValue(parsed, Decoded[completion.doc].val)

\* C24 (as stated): called with a valid JSON object that has lost closing
\* braces and brackets at its end, at any nesting of objects and arrays,
\* safe_json_parse returns what json.loads makes of the whole object.
C24_TruncationRepaired ==
    (parse_pc = "returned" /\ completion.cut > 0 /\ completion.doc \in ValidObjects) =>
        SameValue(parsed, Decoded[completion.doc].val)

\* Whether the evaluator has been called for the pair at place k.
EvaluatorCalled(k) == \E j \in DOMAIN journal : journal[j] = <<"evaluate", k>>

\* The query of result r reported no error: its payload has no error field,
\* or one that is null or empty.
NoErrorReported(r) == r.error.t = "null" \/ (r.error.t = "str" /\ r.error.v = "")

When(what, k) ==
    IF \E j \in DOMAIN journal : journal[j] = <<what, k>>
    THEN CHOOSE j \in DOMAIN journal : journal[j] = <<what, k>>
    ELSE 0

\* C30: the pairs are processed one at a time in the order of the file: the
\* query of a pair is made only after the result of the pair before it was
\* appended and the delay that follows it was taken; the list returned holds
\* one result per pair processed, in input order, and has min(max_samples, N)
\* results for a positive max_samples, N for None and for 0.
C30_SequentialInOrder ==
    /\ \A k \in 2..Len(limited) :
            When("query", k) > 0 =>
                /\ 0 < When("append", k - 1)
                /\ When("append", k - 1) < When("sleep", k - 1)
                /\ When("sleep", k - 1) < When("query", k)
    /\ \A k \in DOMAIN assessed : assessed[k].qa_id = AssessFixture[qa_pairs[k]].id
    /\ m_pc = "returned" =>
            /\ Len(assessed) = Cardinality({j \in DOMAIN journal : journal[j][1] = "query"})
            /\ (max_samples.none \/ max_samples.n = 0) => Len(assessed) = Len(qa_pairs)
            /\ (~max_samples.none /\ max_samples.n > 0) =>
                    Len(assessed) = IF max_samples.n < Len(qa_pairs)
                                    THEN max_samples.n ELSE Len(qa_pairs)

\* A run of three pairs limited to two that has returned its two results.
C30_Witness ==
    /\ m_pc = "returned"
    /\ Len(qa_pairs) = 3
    /\ max_samples = [none |-> FALSE, n |-> 2]
    /\ Len(assessed) = 2
    /\ When("sleep", 1) < When("query", 2)

\* The chunks whose task returned a result.
Detailed == {i \in Chunks : ~raw_results[i].none}

\* The chunks whose task returned a result that is not correct.
Missed == {i \in Detailed : ~raw_results[i].detail.is_correct}

\* C28: in every state of a run, whatever the order in which the chunks'
\* tasks end, corrections holds one entry for each result returned with
\* is_correct false and no other entry: none for a chunk whose task
\* returned None after a failure or for want of a QA pair, which has no detail
\* record either; the QuickTestResult has len(corrections) = total - correct.
C28_OneCorrectionPerMiss ==
    /\ Len(corrections) = Cardinality(Missed)
    /\ \A i \in Missed :
            Cardinality({k \in DOMAIN corrections : corrections[k].source = Chunk(i).path}) = 1
    /\ \A k \in DOMAIN corrections : \E i \in Missed : corrections[k].source = Chunk(i).path
    /\ \A i \in Chunks : Chunk(i).gen # "ok" => i \notin Detailed
    /\ quick_pc = "returned" =>
            /\ quick_result.total = Cardinality(Detailed)
            /\ Len(quick_result.details) = Cardinality(Detailed)
            /\ \A k \in DOMAIN quick_result.details :
                    \E i \in Detailed : quick_result.details[k].source = Chunk(i).path
            /\ Len(quick_result.corrections) = quick_result.total - quick_result.correct

\* A run returned with two results that are not correct, the second chunk's
\* correction tracked before the first's.
C28_Witness ==
    /\ quick_pc = "returned"
    /\ quick_result.total = 2
    /\ Len(quick_result.corrections) = 2
    /\ quick_result.corrections[1].source = quick_result.details[2].source

\* C29: score never divides by zero, whatever the thresholds and the latency;
\* every score returned is an integer of 0..100; and with the default
\* thresholds a larger latency never gets a larger score.
C29_ScoreTotalBoundedMonotone ==
    /\ t_pc # "raised"
    /\ t_pc = "scoring" => Divisor(scorer, asked) > 0
    /\ \A k \in DOMAIN score_calls : score_calls[k].tuple.score \in 0..100
    /\ scorer = LatencyScorer =>
            \A a, b \in DOMAIN score_calls :
                score_calls[a].latency_ms <= score_calls[b].latency_ms =>
                    score_calls[a].tuple.score >= score_calls[b].tuple.score

\* Two calls on the default scorer, across the last threshold: 60 at 5000 ms,
\* 0 at 12000 ms.
C29_Witness ==
    /\ scorer = LatencyScorer
    /\ Len(score_calls) = 2
    /\ score_calls[1].latency_ms = 5000 /\ score_calls[1].tuple.score = 60
    /\ score_calls[2].latency_ms = 12000 /\ score_calls[2].tuple.score = 0
====
